---- MODULE Spec2Model ----
(***************************************************************************)
(* Constant-product AMM of amms-program: the CpAmm account record, the     *)
(* payload calculations of state/cp_amm/cp_amm.rs and cp_amm_calculate.rs, *)
(* the Q64.128 fixed-point arithmetic of utils/math and the instruction    *)
(* handlers that drive them.                                               *)
(*                                                                         *)
(* u64 amounts are held as integers; the model keeps them far below 2^31.  *)
(* U192/U384 values (the raw value of a Q64_128, u128 products) are held   *)
(* as little-endian sequences of limbs of W bits without leading zero      *)
(* limbs, zero being the empty sequence.                                   *)
(*                                                                         *)
(* The({body : x \in {e}}) is "let x = e; body": e is evaluated once and   *)
(* x names its value.                                                      *)
(***************************************************************************)
EXTENDS Integers, Sequences, FiniteSets, TLC

The(S) == CHOOSE r \in S : TRUE

(***************************************************************************)
(* Wide unsigned integers (construct_uint! U192 / U384).                   *)
(***************************************************************************)
W == 13

MaxI(a, b) == IF a > b THEN a ELSE b

MinI(a, b) == IF a < b THEN a ELSE b

RECURSIVE Pow2(_)
Pow2(n) == IF n = 0 THEN 1 ELSE 2 * Pow2(n - 1)

LIMB == Pow2(W)

RECURSIVE BitLenI(_)
BitLenI(n) == IF n = 0 THEN 0 ELSE 1 + BitLenI(n \div 2)

\* drop the leading zero limbs
Norm(s) ==
    The({SubSeq(x, 1, Len(x) - Cardinality({i \in 1..Len(x) : \A j \in i..Len(x) : x[j] = 0}))
            : x \in {s}})

RECURSIVE FromIntR(_)
FromIntR(n) == IF n = 0 THEN <<>> ELSE <<n % LIMB>> \o FromIntR(n \div LIMB)

FromInt(n) == The({FromIntR(u) : u \in {n}})

RECURSIVE ToIntR(_)
ToIntR(a) == IF a = <<>> THEN 0 ELSE a[1] + LIMB * ToIntR(Tail(a))

ToInt(a) == The({ToIntR(u) : u \in {a}})

Limb(s, i) == IF i >= 1 /\ i <= Len(s) THEN s[i] ELSE 0

RECURSIVE CarryR(_)
\* move the carries up by one limb until every limb is below LIMB
CarryR(cols) ==
    The({IF \A i \in 1..Len(x) : x[i] < LIMB THEN x
         ELSE CarryR([i \in 1..(Len(x) + 1) |->
                         (Limb(x, i) % LIMB) + (Limb(x, i - 1) \div LIMB)] \o <<>>)
            : x \in {cols}})

Carry(cols) == Norm(CarryR(cols))

Add(a, b) ==
    The({Carry([i \in 1..MaxI(Len(x), Len(y)) |-> Limb(x, i) + Limb(y, i)] \o <<>>)
            : x \in {a}, y \in {b}})

\* a - b for a >= b: a plus the complement of b, less the top carry
Sub(a, b) ==
    The({IF y = <<>> THEN x
         ELSE Norm(SubSeq(CarryR([i \in 1..Len(x) |->
                                     x[i] + (LIMB - 1 - Limb(y, i)) + (IF i = 1 THEN 1 ELSE 0)] \o <<>>),
                          1, Len(x)))
            : x \in {a}, y \in {b}})

\* 1, 0, -1 as a > b, a = b, a < b
Cmp(a, b) ==
    The({IF Len(x) > Len(y) THEN 1
         ELSE IF Len(x) < Len(y) THEN -1
         ELSE The({IF D = {} THEN 0
                   ELSE The({IF x[top] > y[top] THEN 1 ELSE -1
                                : top \in {CHOOSE i \in D : \A j \in (i + 1)..Len(x) : x[j] = y[j]}})
                      : D \in {{i \in 1..Len(x) : x[i] # y[i]}}})
            : x \in {a}, y \in {b}})

RECURSIVE SumRows(_)
\* the limb-wise sum of the rows, adding them in pairs
SumRows(rows) ==
    The({IF Len(rs) = 1 THEN rs[1]
         ELSE SumRows([r \in 1..((Len(rs) + 1) \div 2) |->
                          IF 2 * r <= Len(rs)
                          THEN [j \in 1..Len(rs[1]) |-> rs[2 * r - 1][j] + rs[2 * r][j]] \o <<>>
                          ELSE rs[2 * r - 1]] \o <<>>)
            : rs \in {rows}})

Mul(a, b) ==
    The({IF x = <<>> \/ y = <<>> THEN <<>>
         ELSE Carry(SumRows([i \in 1..Len(y) |->
                                [j \in 1..(Len(x) + Len(y)) |->
                                    IF j >= i /\ j - i + 1 <= Len(x) THEN x[j - i + 1] * y[i] ELSE 0]
                                \o <<>>] \o <<>>))
            : x \in {a}, y \in {b}})

\* a * k for 0 <= k < LIMB
MulSmall(a, k) == The({Carry([i \in 1..Len(x) |-> x[i] * m] \o <<>>) : x \in {a}, m \in {k}})

Shl(a, n) ==
    The({IF x = <<>> THEN <<>>
         ELSE Norm([i \in 1..(Len(x) + d + 1) |->
                       ((Limb(x, i - d) * p) % LIMB) + ((Limb(x, i - d - 1) * p) \div LIMB)] \o <<>>)
            : x \in {a}, d \in {n \div W}, p \in {Pow2(n % W)}})

Shr(a, n) ==
    The({IF Len(x) <= d THEN <<>>
         ELSE Norm([i \in 1..(Len(x) - d) |->
                       (Limb(x, i + d) \div p) + ((Limb(x, i + d + 1) % p) * (LIMB \div p))] \o <<>>)
            : x \in {a}, d \in {n \div W}, p \in {Pow2(n % W)}})

BitLen(a) == The({IF x = <<>> THEN 0 ELSE (Len(x) - 1) * W + BitLenI(x[Len(x)]) : x \in {a}})

\* a mod 2^k
LowBits(a, k) ==
    The({Norm([i \in 1..MinI(Len(x), d + 1) |-> IF i <= d THEN x[i] ELSE x[i] % p] \o <<>>)
            : x \in {a}, d \in {k \div W}, p \in {Pow2(k % W)}})

RECURSIVE QStep(_, _, _)
\* <<q, cur - q * bn>> for the largest q <= q0 with q * bn <= cur
QStep(cur, bn, q0) ==
    The({IF Cmp(pr, cur) > 0 THEN QStep(cur, bn, q0 - 1) ELSE <<q0, Sub(cur, pr)>>
            : pr \in {MulSmall(bn, q0)}})

\* the first guess of the next quotient limb, from the top limbs
QGuess(cur, bn) ==
    IF Len(cur) < Len(bn) THEN 0
    ELSE MinI(LIMB - 1, (IF Len(cur) > Len(bn) THEN cur[Len(bn) + 1] * LIMB + cur[Len(bn)]
                                                ELSE cur[Len(bn)]) \div bn[Len(bn)])

\* one step of the long division: st = <<i, rem, quot>>, limb i of an being the next to bring down
DivStep(an, bn, st0) ==
    The({IF st[1] = 0 THEN st
         ELSE The({The({<<st[1] - 1, qr[2], <<qr[1]>> \o st[3]>>
                           : qr \in {QStep(cur, bn, QGuess(cur, bn))}})
                      : cur \in {Norm(<<an[st[1]]>> \o st[2])}})
            : st \in {st0}})

DivStep4(an, bn, st) == DivStep(an, bn, DivStep(an, bn, DivStep(an, bn, DivStep(an, bn, st))))

RECURSIVE LongDiv(_, _, _)
\* the steps are taken eight at a time to keep the recursion shallow
LongDiv(an, bn, st) ==
    IF st[1] = 0 THEN st[3]
    ELSE The({LongDiv(an, bn, next) : next \in {DivStep4(an, bn, DivStep4(an, bn, st))}})

\* the number of zero limbs at the low end
LowZeros(x) == Cardinality({i \in 1..Len(x) : \A j \in 1..i : x[j] = 0})

\* floor(a / b) for b # 0, by long division after the zero limbs at the low end of both are dropped
\* and the top limb of the divisor is brought to full width
Div(a, b) ==
    The({The({The({Norm(LongDiv(an, bn, <<Len(an), <<>>, <<>>>>))
                      : an \in {Shl(SubSeq(x, z + 1, Len(x)), sh)},
                        bn \in {Shl(SubSeq(y, z + 1, Len(y)), sh)}})
                 : z \in {MinI(LowZeros(x), LowZeros(y))}, sh \in {W - BitLenI(y[Len(y)])}})
            : x \in {a}, y \in {b}})

RECURSIVE IsqrtI(_, _)
IsqrtI(n, x) == The({IF y >= x THEN x ELSE IsqrtI(n, y) : y \in {(x + n \div x) \div 2}})

IsqrtSmall(n) ==
    The({IF m = 0 THEN 0 ELSE The({IsqrtI(m, x0) : x0 \in {Pow2((BitLenI(m) + 1) \div 2)}})
            : m \in {n}})

KSqrtK(n) == (BitLen(n) + 3) \div 4

KSqrtT(n) == (4 * KSqrtK(n) - BitLen(n)) \div 2

KSqrtHi(n) == Shr(Shl(n, 2 * KSqrtT(n)), 2 * KSqrtK(n))

\* the root of n from the root s1 of its upper half
KSqrtJoin(n, s1) ==
    The({The({The({The({The({IF Cmp(Add(Shl(u, k), LowBits(m, k)), Mul(q, q)) < 0
                             THEN Shr(Sub(s, <<1>>), t)
                             ELSE Shr(s, t)
                                : u \in {Sub(num, Mul(q, d))}, s \in {Add(Shl(s1, k), q)}})
                           : q \in {Div(num, d)}})
                      : num \in {Add(Shl(Sub(Shr(m, 2 * k), Mul(s1, s1)), k), LowBits(Shr(m, k), k))},
                        d \in {Shl(s1, 1)}})
                 : m \in {Shl(n, 2 * t)}})
            : k \in {KSqrtK(n)}, t \in {KSqrtT(n)}})

RECURSIVE KSqrt(_)
KSqrt(n) ==
    The({IF Len(x) <= 2 THEN FromInt(IsqrtSmall(ToInt(x)))
         ELSE The({KSqrtJoin(x, s1) : s1 \in {KSqrt(KSqrtHi(x))}})
            : x \in {n}})

\* floor(sqrt(n)): U384::integer_sqrt
integer_sqrt(n) == KSqrt(n)

RECURSIVE FromDecimalR(_, _)
FromDecimalR(chunks, acc) ==
    IF chunks = <<>> THEN acc
    ELSE The({FromDecimalR(Tail(chunks), next)
                 : next \in {Add(Mul(acc, FromInt(10000)), FromInt(Head(chunks)))}})

\* the number whose decimal digits are the chunks, four digits each
FromDecimal(chunks) == FromDecimalR(chunks, <<>>)

(***************************************************************************)
(* Option and Result.                                                      *)
(***************************************************************************)
None == [some |-> FALSE]

Some(x) == [some |-> TRUE, v |-> x]

Err(e) == [ok |-> FALSE, err |-> e]

Ok(x) == [ok |-> TRUE, v |-> x]

\* u64::checked_add
u64_checked_add(a, b) == IF BitLen(Add(FromInt(a), FromInt(b))) > 64 THEN None ELSE Some(a + b)

\* u64::checked_sub
u64_checked_sub(a, b) == IF a < b THEN None ELSE Some(a - b)

\* u64::abs_diff
u64_abs_diff(a, b) == IF a >= b THEN a - b ELSE b - a

RECURSIVE pow(_, _)
pow(b, e) == IF e = 0 THEN 1 ELSE b * pow(b, e - 1)

(***************************************************************************)
(* utils/math/u256.rs: a U256 is a wide integer below 2^256.               *)
(***************************************************************************)
U256_MAX == Sub(Shl(<<1>>, 256), <<1>>)

U128_MAX == Sub(Shl(<<1>>, 128), <<1>>)

U256_saturating_mul(a, b) ==
    The({IF BitLen(product) > 256 THEN U256_MAX ELSE product : product \in {Mul(a, b)}})

\* one turn of the while loop of U256::sqrt on [low, high, ret], ret being
\* the value of the early return; a state the loop has left stays as it is
sqrt_turn(self, st) ==
    IF st.ret.some \/ ~(Cmp(Sub(st.high, st.low), <<1>>) > 0) THEN st
    ELSE The({The({IF order < 0 THEN [st EXCEPT !.low = mid]
                   ELSE IF order = 0 THEN [st EXCEPT !.ret = Some(mid)]
                   ELSE [st EXCEPT !.high = mid]
                      : order \in {Cmp(U256_saturating_mul(mid, mid), self)}})
                 : mid \in {Shr(Add(st.low, st.high), 1)}})

sqrt_turns(self, st) ==
    sqrt_turn(self, sqrt_turn(self, sqrt_turn(self, sqrt_turn(self, sqrt_turn(self, sqrt_turn(self, sqrt_turn(self, sqrt_turn(self, st))))))))

RECURSIVE sqrt_loop(_, _)
\* the while loop of U256::sqrt, eight turns at a time
sqrt_loop(self, st) ==
    IF st.ret.some \/ ~(Cmp(Sub(st.high, st.low), <<1>>) > 0) THEN st
    ELSE sqrt_loop(self, sqrt_turns(self, st))

\* U256::sqrt
sqrt(self) ==
    IF self = <<>> THEN self
    ELSE IF self = <<1>> THEN self
    ELSE IF self = U256_MAX THEN U128_MAX
    ELSE The({The({The({IF st.ret.some THEN st.ret.v
                   ELSE IF 256 - BitLen(st.high) >= 128 /\ Mul(st.high, st.high) = self THEN st.high
                   ELSE st.low
                      : st \in {sqrt_loop(self, [low |-> <<1>>, high |-> Shr(self, shift), ret |-> None])}})
                 : shift \in {(256 - leading_zeros - (IF leading_zeros # 255 THEN 1 ELSE 0)) \div 2}})
                 : leading_zeros \in {256 - BitLen(self)}})

U64_MAX == Sub(Shl(<<1>>, 64), <<1>>)

\* U256::checked_as_u64; a u64 is kept as a wide integer here
U256_checked_as_u64(self) == IF 256 - BitLen(self) < 192 THEN None ELSE Some(self)

\* U256::get_fractional_bits
U256_get_fractional_bits(self, bits_amount) ==
    LowBits(Shr(LowBits(self, 128), 128 - MinI(bits_amount, 128)), 64)

checked_q128_128_to_u64_round(self) ==
    The({IF ~square_as_u64.some THEN None
         ELSE IF square_as_u64.v = U64_MAX \/ square_as_u64.v = <<>> THEN Some(U64_MAX)
         ELSE IF Cmp(U256_get_fractional_bits(self, 8), FromInt(128)) > 0
              THEN Some(Add(square_as_u64.v, <<1>>))
              ELSE square_as_u64
            : square_as_u64 \in {U256_checked_as_u64(Shr(self, 128))}})

(***************************************************************************)
(* utils/math/uint_types.rs and utils/math/q64_128.rs: a Q64_128 is its    *)
(* raw U192 value.                                                         *)
(***************************************************************************)
FRACTIONAL_BITS == 128

\* Q64_128::MAX = U192::MAX
MAX == Sub(Shl(<<1>>, 192), <<1>>)

from_u64(value) == Shl(FromInt(value), FRACTIONAL_BITS)

ONE == from_u64(1)

\* low_bits is a u128 given as a wide integer
from_bits(high_bits, low_bits) == Add(Shl(FromInt(high_bits), 128), low_bits)

as_u64(q) == ToInt(Shr(q, FRACTIONAL_BITS))

is_zero(q) == q = <<>>

is_one(q) == q = ONE

\* impl From<U384> for Q64_128: None stands for the panic
from_u384(value) == The({IF BitLen(x) > 192 THEN None ELSE Some(x) : x \in {value}})

checked_as_q64_128(value) == The({IF BitLen(x) > 192 THEN None ELSE Some(x) : x \in {value}})

get_fractional_bits(value, fraction_start, bits_amount) ==
    The({LowBits(Shr(LowBits(value, limited_start), limited_start - MinI(bits_amount, limited_start)), 128)
            : limited_start \in {MinI(fraction_start, 256)}})

q128_256_to_u128_round(value) ==
    The({IF rounded_value = U128_MAX \/ rounded_value = <<>> THEN rounded_value
         ELSE IF Cmp(get_fractional_bits(x, 256, 8), FromInt(128)) > 0
              THEN Add(rounded_value, <<1>>)
              ELSE rounded_value
            : x \in {value}, rounded_value \in {LowBits(Shr(value, 256), 128)}})

\* U384::checked_as_u64; a u64 is kept as a wide integer here
U384_checked_as_u64(self) == IF 384 - BitLen(self) < 320 THEN None ELSE Some(self)

\* checked_q128_256_to_u64_round without the rounding up: the variant C25 is
\* checked against
checked_q128_256_to_u64_truncate(value) == U384_checked_as_u64(Shr(value, 256))

checked_q128_256_to_u64_round(value) ==
    The({IF ~rounded_value.some THEN None
         ELSE IF rounded_value.v = U64_MAX \/ rounded_value.v = <<>> THEN Some(U64_MAX)
         ELSE IF Cmp(get_fractional_bits(value, 256, 8), FromInt(128)) > 0
              THEN Some(Add(rounded_value.v, <<1>>))
              ELSE rounded_value
            : rounded_value \in {U384_checked_as_u64(Shr(value, 256))}})

\* impl Mul for Q64_128: None stands for the panic
mul(a, b) == from_u384(Shr(Mul(a, b), FRACTIONAL_BITS))

abs_diff(a, b) == The({IF Cmp(x, y) >= 0 THEN Sub(x, y) ELSE Sub(y, x) : x \in {a}, y \in {b}})

checked_sub(a, b) == The({IF Cmp(x, y) < 0 THEN None ELSE Some(Sub(x, y)) : x \in {a}, y \in {b}})

checked_mul(a, b) == checked_as_q64_128(Shr(Mul(a, b), FRACTIONAL_BITS))

checked_div(a, b) ==
    The({IF is_zero(y) THEN None ELSE checked_as_q64_128(Div(Shl(a, FRACTIONAL_BITS), y))
            : y \in {b}})

saturating_mul(a, b) == The({IF res.some THEN res.v ELSE MAX : res \in {checked_mul(a, b)}})

saturating_checked_div(a, b) ==
    The({IF is_zero(y) THEN None
         ELSE The({IF res.some THEN res ELSE Some(MAX)
                      : res \in {checked_as_q64_128(Div(Shl(a, FRACTIONAL_BITS), y))}})
            : y \in {b}})

square_as_u384(q) ==
    The({IF is_zero(x) THEN <<>> ELSE IF is_one(x) THEN <<1>> ELSE Mul(x, x) : x \in {q}})

square_as_u128(q) ==
    The({IF sq = <<1>> \/ is_zero(x) THEN LowBits(sq, 128) ELSE q128_256_to_u128_round(sq)
            : x \in {q}, sq \in {square_as_u384(q)}})

checked_square_as_u64(q) ==
    The({IF sq = <<1>> \/ is_zero(q) THEN Some(LowBits(sq, 64)) ELSE checked_q128_256_to_u64_round(sq)
            : sq \in {square_as_u384(q)}})

\* value is a u128 given as a wide integer
sqrt_from_u128(value) == from_u384(integer_sqrt(Shl(value, 2 * FRACTIONAL_BITS))).v

checked_div_sqrt(q1, q2) ==
    The({IF is_zero(y) THEN None
         ELSE IF x = y THEN Some(ONE)
         ELSE The({IF ~division_result.some THEN None
                   ELSE Some(from_u384(integer_sqrt(Shl(division_result.v, FRACTIONAL_BITS))).v)
                      : division_result \in {checked_div(x, y)}})
            : x \in {q1}, y \in {q2}})

(***************************************************************************)
(* state/cp_amm/cp_amm_calculate.rs                                        *)
(***************************************************************************)
LP_MINT_INITIAL_DECIMALS == 5

FEE_MAX_BASIS_POINTS == 10000

INITIAL_LOCKED_LP_TOKENS == pow(10, LP_MINT_INITIAL_DECIMALS)

SWAP_CONSTANT_PRODUCT_TOLERANCE ==
    from_bits(0, FromDecimal(<<340, 2823, 6692, 938, 4634, 6337, 4607, 4317>>))

ADJUST_LIQUIDITY_RATIO_TOLERANCE ==
    from_bits(0, FromDecimal(<<340, 2823, 6692, 938, 4634, 6337, 4607, 4317>>))

\* calculate_base_quote_ratio_sqrt answering zero where the division or the
\* square root fails: the variant C6 is checked against
calculate_base_quote_ratio_sqrt_or_zero(base_liquidity, quote_liquidity) ==
    The({IF ~ratio.some THEN Some(<<>>) ELSE ratio
            : ratio \in {checked_div_sqrt(from_u64(base_liquidity), from_u64(quote_liquidity))}})

calculate_base_quote_ratio_sqrt(base_liquidity, quote_liquidity) ==
    The({IF ~ratio.some THEN None
         ELSE IF is_zero(ratio.v) THEN None
         ELSE ratio
            : ratio \in {checked_div_sqrt(from_u64(base_liquidity), from_u64(quote_liquidity))}})

calculate_constant_product_sqrt(base_liquidity, quote_liquidity) ==
    The({IF is_zero(constant_product_sqrt) THEN None ELSE Some(constant_product_sqrt)
            : constant_product_sqrt \in
                  {sqrt_from_u128(Mul(FromInt(base_liquidity), FromInt(quote_liquidity)))}})

calculate_launch_lp_tokens(constant_product_sqrt) ==
    The({IF ~(lp_tokens_supply > 0) THEN Err("LpTokensCalculationFailed")
         ELSE IF ~difference.some THEN Err("LaunchLiquidityTooSmall")
         ELSE IF ~(difference.v >= initial_locked_liquidity * Pow2(3)) THEN Err("LaunchLiquidityTooSmall")
         ELSE Ok(<<lp_tokens_supply, initial_locked_liquidity>>)
            : lp_tokens_supply \in {as_u64(constant_product_sqrt)},
              initial_locked_liquidity \in {INITIAL_LOCKED_LP_TOKENS},
              difference \in {u64_checked_sub(as_u64(constant_product_sqrt), INITIAL_LOCKED_LP_TOKENS)}})

calculate_lp_mint_for_provided_liquidity(amm, new_constant_product_sqrt) ==
    The({IF ~provided_liquidity.some THEN None ELSE
    The({IF ~share_from_current_liquidity.some THEN None ELSE
    The({IF ~minted.some THEN None ELSE
    The({IF tokens_to_mint = 0 THEN None ELSE Some(tokens_to_mint)
            : tokens_to_mint \in {as_u64(minted.v)}})
            : minted \in {checked_mul(share_from_current_liquidity.v, from_u64(amm.lp_tokens_supply))}})
            : share_from_current_liquidity \in
                  {checked_div(provided_liquidity.v, amm.constant_product_sqrt)}})
            : provided_liquidity \in {checked_sub(new_constant_product_sqrt, amm.constant_product_sqrt)}})

\* calculate_liquidity_from_share taking the share of the supply outside the
\* locked vault: the variant C28 is checked against
calculate_liquidity_from_share_of_unlocked(amm, lp_tokens) ==
    IF lp_tokens = 0 THEN None ELSE
    The({IF ~liquidity_share.some THEN None ELSE
    The({IF ~constant_product_sqrt_share.some THEN None ELSE
    The({IF ~quote_q.some THEN None ELSE
    The({IF base_withdraw = 0 \/ quote_withdraw = 0 THEN None
         ELSE Some(<<base_withdraw, quote_withdraw>>)
            : quote_withdraw \in {as_u64(quote_q.v)}})
            : base_withdraw \in
                  {as_u64(saturating_mul(constant_product_sqrt_share.v, amm.base_quote_ratio_sqrt))},
              quote_q \in
                  {saturating_checked_div(constant_product_sqrt_share.v, amm.base_quote_ratio_sqrt)}})
            : constant_product_sqrt_share \in {checked_mul(amm.constant_product_sqrt, liquidity_share.v)}})
            : liquidity_share \in {checked_div(from_u64(lp_tokens), from_u64(amm.lp_tokens_supply - amm.initial_locked_liquidity))}})

calculate_liquidity_from_share(amm, lp_tokens) ==
    IF lp_tokens = 0 THEN None ELSE
    The({IF ~liquidity_share.some THEN None ELSE
    The({IF ~constant_product_sqrt_share.some THEN None ELSE
    The({IF ~quote_q.some THEN None ELSE
    The({IF base_withdraw = 0 \/ quote_withdraw = 0 THEN None
         ELSE Some(<<base_withdraw, quote_withdraw>>)
            : quote_withdraw \in {as_u64(quote_q.v)}})
            : base_withdraw \in
                  {as_u64(saturating_mul(constant_product_sqrt_share.v, amm.base_quote_ratio_sqrt))},
              quote_q \in
                  {saturating_checked_div(constant_product_sqrt_share.v, amm.base_quote_ratio_sqrt)}})
            : constant_product_sqrt_share \in {checked_mul(amm.constant_product_sqrt, liquidity_share.v)}})
            : liquidity_share \in {checked_div(from_u64(lp_tokens), from_u64(amm.lp_tokens_supply))}})

\* x_liquidity is a reserve plus a positive amount, never zero
calculate_opposite_liquidity(amm, x_liquidity) ==
    The({IF opposite_liquidity = 0 THEN None ELSE Some(opposite_liquidity)
            : opposite_liquidity \in
                  {ToInt(LowBits(Div(square_as_u128(amm.constant_product_sqrt), FromInt(x_liquidity)), 64))}})

calculate_afterswap_liquidity(amm, swap_amount, is_in_out) ==
    IF is_in_out
    THEN The({IF ~new_base_liquidity.some THEN None ELSE
         The({IF ~new_quote_liquidity.some THEN None
              ELSE Some(<<new_base_liquidity.v, new_quote_liquidity.v>>)
                 : new_quote_liquidity \in {calculate_opposite_liquidity(amm, new_base_liquidity.v)}})
                 : new_base_liquidity \in {u64_checked_add(amm.base_liquidity, swap_amount)}})
    ELSE The({IF ~new_quote_liquidity.some THEN None ELSE
         The({IF ~new_base_liquidity.some THEN None
              ELSE Some(<<new_base_liquidity.v, new_quote_liquidity.v>>)
                 : new_base_liquidity \in {calculate_opposite_liquidity(amm, new_quote_liquidity.v)}})
                 : new_quote_liquidity \in {u64_checked_add(amm.quote_liquidity, swap_amount)}})

\* validate_and_calculate_liquidity_ratio without the comparison with the
\* stored ratio: the variant C18 is checked against
calculate_liquidity_ratio_unvalidated(amm, new_base_liquidity, new_quote_liquidity) ==
    The({IF ~new_base_quote_ratio_sqrt.some THEN Err("BaseQuoteRatioCalculationFailed")
         ELSE Ok(new_base_quote_ratio_sqrt.v)
            : new_base_quote_ratio_sqrt \in
                  {calculate_base_quote_ratio_sqrt(new_base_liquidity, new_quote_liquidity)}})

\* Err("Panic") stands for the panic of the multiplication
validate_and_calculate_liquidity_ratio(amm, new_base_liquidity, new_quote_liquidity) ==
    The({IF ~new_base_quote_ratio_sqrt.some THEN Err("BaseQuoteRatioCalculationFailed") ELSE
    The({IF ~allowed_difference.some THEN Err("Panic")
         ELSE IF ~(Cmp(difference, allowed_difference.v) <= 0) THEN Err("LiquidityRatioToleranceExceeded")
         ELSE Ok(new_base_quote_ratio_sqrt.v)
            : difference \in {abs_diff(amm.base_quote_ratio_sqrt, new_base_quote_ratio_sqrt.v)},
              allowed_difference \in {mul(amm.base_quote_ratio_sqrt, ADJUST_LIQUIDITY_RATIO_TOLERANCE)}})
            : new_base_quote_ratio_sqrt \in
                  {calculate_base_quote_ratio_sqrt(new_base_liquidity, new_quote_liquidity)}})

\* Err("Panic") stands for the panic of the multiplication
\* validate_swap_constant_product letting every product through: the variant
\* C27 is checked against
validate_swap_constant_product_skipped(amm, new_base_liquidity, new_quote_liquidity) == Ok(TRUE)

validate_swap_constant_product(amm, new_base_liquidity, new_quote_liquidity) ==
    The({IF ~new_constant_product_sqrt.some THEN Err("ConstantProductCalculationFailed") ELSE
    The({IF ~allowed_difference.some THEN Err("Panic")
         ELSE IF ~(Cmp(difference, allowed_difference.v) <= 0) THEN Err("ConstantProductToleranceExceeded")
         ELSE Ok(TRUE)
            : difference \in {abs_diff(amm.constant_product_sqrt, new_constant_product_sqrt.v)},
              allowed_difference \in {mul(amm.constant_product_sqrt, SWAP_CONSTANT_PRODUCT_TOLERANCE)}})
            : new_constant_product_sqrt \in
                  {calculate_constant_product_sqrt(new_base_liquidity, new_quote_liquidity)}})

\* ((swap_amount as u128) * (rate as u128) / FEE_MAX_BASIS_POINTS) as u64
calculate_fee_amount(swap_amount, fee_rate_basis_points) ==
    ToInt(LowBits(Div(Mul(FromInt(swap_amount), FromInt(fee_rate_basis_points)),
                      FromInt(FEE_MAX_BASIS_POINTS)), 64))

\* check_swap_result without its second requirement: the variant C14 is checked against
check_swap_result_nonzero_only(swap_result, estimated_swap_result, allowed_slippage) ==
    IF ~(swap_result > 0) THEN Err("SwapResultIsZero") ELSE Ok(TRUE)

check_swap_result(swap_result, estimated_swap_result, allowed_slippage) ==
    IF ~(swap_result > 0) THEN Err("SwapResultIsZero")
    ELSE IF ~(u64_abs_diff(swap_result, estimated_swap_result) <= allowed_slippage)
         THEN Err("SwapSlippageExceeded")
    ELSE Ok(TRUE)

(***************************************************************************)
(* state/amms_config.rs: the fee rates of the AmmsConfig account.  The     *)
(* rates are u16 and their sum is taken in u16: a sum past 65535 panics in *)
(* a build with overflow checks and wraps in a build without them.  Which  *)
(* build runs is fixed in the initial state.                               *)
(***************************************************************************)
VARIABLE overflow_checks  \* the program was built with overflow checks

u16_add(a, b) ==
    IF a + b < 2^16 THEN Some(a + b)
    ELSE IF overflow_checks THEN None
    ELSE Some((a + b) % 2^16)

\* the account before initialize_amms_config has run
ZeroAmmsConfig ==
    [is_initialized |-> FALSE,
     providers_fee_rate_basis_points |-> 0,
     protocol_fee_rate_basis_points |-> 0]

\* AmmsConfig::initialize; Err("Panic") stands for the overflow of +
AmmsConfig_initialize(config, protocol_fee_rate_basis_points, providers_fee_rate_basis_points) ==
    The({IF ~sum.some THEN Err("Panic")
         ELSE IF ~(sum.v <= 10000) THEN Err("ConfigFeeRateExceeded")
         ELSE Ok([config EXCEPT !.protocol_fee_rate_basis_points = protocol_fee_rate_basis_points,
                                !.providers_fee_rate_basis_points = providers_fee_rate_basis_points])
            : sum \in {u16_add(providers_fee_rate_basis_points, protocol_fee_rate_basis_points)}})

update_providers_fee_rate(config, new_providers_fee_rate_basis_points) ==
    The({IF ~sum.some THEN Err("Panic")
         ELSE IF ~(sum.v <= 10000) THEN Err("ConfigFeeRateExceeded")
         ELSE Ok([config EXCEPT !.providers_fee_rate_basis_points = new_providers_fee_rate_basis_points])
            : sum \in {u16_add(new_providers_fee_rate_basis_points, config.protocol_fee_rate_basis_points)}})

update_protocol_fee_rate(config, new_protocol_fee_rate_basis_points) ==
    The({IF ~sum.some THEN Err("Panic")
         ELSE IF ~(sum.v <= 10000) THEN Err("ConfigFeeRateExceeded")
         ELSE Ok([config EXCEPT !.protocol_fee_rate_basis_points = new_protocol_fee_rate_basis_points])
            : sum \in {u16_add(new_protocol_fee_rate_basis_points, config.providers_fee_rate_basis_points)}})

(***************************************************************************)
(* state/cp_amm/cp_amm.rs: the payload calculations.  Err("Panic") stands  *)
(* for the unwrap of None.                                                 *)
(***************************************************************************)
\* check_state without its first requirement: the variant C9 is checked against
check_state_reserves_only(amm) ==
    IF ~(amm.quote_liquidity > 0) THEN Err("BaseLiquidityIsZero")
    ELSE IF ~(amm.base_liquidity > 0) THEN Err("QuoteLiquidityIsZero")
    ELSE IF ~(amm.lp_tokens_supply > 0) THEN Err("LpTokensSupplyIsZero")
    ELSE Ok(TRUE)

check_state(amm) ==
    IF ~amm.is_launched THEN Err("CpAmmNotLaunched")
    ELSE IF ~(amm.quote_liquidity > 0) THEN Err("BaseLiquidityIsZero")
    ELSE IF ~(amm.base_liquidity > 0) THEN Err("QuoteLiquidityIsZero")
    ELSE IF ~(amm.lp_tokens_supply > 0) THEN Err("LpTokensSupplyIsZero")
    ELSE Ok(TRUE)

get_launch_payload(amm, base_liquidity, quote_liquidity) ==
    IF amm.is_launched THEN Err("CpAmmAlreadyLaunched")
    ELSE IF ~amm.is_initialized THEN Err("CpAmmNotInitialized")
    ELSE IF ~(base_liquidity > 0) THEN Err("ProvidedBaseLiquidityIsZero")
    ELSE IF ~(quote_liquidity > 0) THEN Err("ProvidedQuoteLiquidityIsZero") ELSE
    The({IF ~constant_product_sqrt.some THEN Err("Panic") ELSE
    The({IF ~lp.ok THEN lp ELSE
    The({IF ~base_quote_ratio_sqrt.some THEN Err("Panic")
         ELSE Ok([initial_locked_liquidity |-> lp.v[2],
                  base_liquidity |-> base_liquidity,
                  quote_liquidity |-> quote_liquidity,
                  constant_product_sqrt |-> constant_product_sqrt.v,
                  base_quote_ratio_sqrt |-> base_quote_ratio_sqrt.v,
                  lp_tokens_supply |-> lp.v[1]])
            : base_quote_ratio_sqrt \in {calculate_base_quote_ratio_sqrt(base_liquidity, quote_liquidity)}})
            : lp \in {calculate_launch_lp_tokens(constant_product_sqrt.v)}})
            : constant_product_sqrt \in {calculate_constant_product_sqrt(base_liquidity, quote_liquidity)}})

get_provide_payload(amm, base_liquidity, quote_liquidity) ==
    IF ~check_state(amm).ok THEN check_state(amm)
    ELSE IF ~(base_liquidity > 0) THEN Err("ProvidedBaseLiquidityIsZero")
    ELSE IF ~(quote_liquidity > 0) THEN Err("ProvidedQuoteLiquidityIsZero") ELSE
    The({IF ~new_base_liquidity.some \/ ~new_quote_liquidity.some THEN Err("ProvideOverflowError") ELSE
    The({IF ~ratio.ok THEN ratio ELSE
    The({IF ~new_constant_product_sqrt.some THEN Err("Panic") ELSE
    The({IF ~lp_tokens_to_mint.some THEN Err("LpTokensCalculationFailed") ELSE
    The({IF ~new_lp_tokens_supply.some THEN Err("ProvideOverflowError")
         ELSE Ok([base_quote_ratio_sqrt |-> ratio.v,
                  constant_product |-> new_constant_product_sqrt.v,
                  base_liquidity |-> new_base_liquidity.v,
                  quote_liquidity |-> new_quote_liquidity.v,
                  lp_tokens_supply |-> new_lp_tokens_supply.v,
                  lp_tokens_to_mint |-> lp_tokens_to_mint.v])
            : new_lp_tokens_supply \in {u64_checked_add(amm.lp_tokens_supply, lp_tokens_to_mint.v)}})
            : lp_tokens_to_mint \in
                  {calculate_lp_mint_for_provided_liquidity(amm, new_constant_product_sqrt.v)}})
            : new_constant_product_sqrt \in
                  {calculate_constant_product_sqrt(new_base_liquidity.v, new_quote_liquidity.v)}})
            : ratio \in
                  {validate_and_calculate_liquidity_ratio(amm, new_base_liquidity.v, new_quote_liquidity.v)}})
            : new_base_liquidity \in {u64_checked_add(amm.base_liquidity, base_liquidity)},
              new_quote_liquidity \in {u64_checked_add(amm.quote_liquidity, quote_liquidity)}})

get_withdraw_payload(amm, lp_tokens) ==
    IF ~check_state(amm).ok THEN check_state(amm)
    ELSE IF ~(lp_tokens > 0) THEN Err("ProvidedLpTokensIsZero") ELSE
    The({IF ~lp_tokens_left_supply.some THEN Err("WithdrawOverflowError") ELSE
    The({IF ~share.some THEN Err("WithdrawLiquidityCalculationFailed") ELSE
    The({IF ~new_base_liquidity.some \/ ~new_quote_liquidity.some THEN Err("WithdrawOverflowError") ELSE
    The({IF ~ratio.ok THEN ratio
         ELSE Ok([base_quote_ratio_sqrt |-> ratio.v,
                  base_liquidity |-> new_base_liquidity.v,
                  quote_liquidity |-> new_quote_liquidity.v,
                  lp_tokens_supply |-> lp_tokens_left_supply.v,
                  base_withdraw_amount |-> share.v[1],
                  quote_withdraw_amount |-> share.v[2]])
            : ratio \in
                  {validate_and_calculate_liquidity_ratio(amm, new_base_liquidity.v, new_quote_liquidity.v)}})
            : new_base_liquidity \in {u64_checked_sub(amm.base_liquidity, share.v[1])},
              new_quote_liquidity \in {u64_checked_sub(amm.quote_liquidity, share.v[2])}})
            : share \in {calculate_liquidity_from_share(amm, lp_tokens)}})
            : lp_tokens_left_supply \in {u64_checked_sub(amm.lp_tokens_supply, lp_tokens)}})

get_swap_payload(amm, swap_amount, estimated_result, allowed_slippage, providers_fee_rate_basis_points, protocol_fee_rate_basis_points, is_in_out) ==
    IF ~check_state(amm).ok THEN check_state(amm)
    ELSE IF ~(swap_amount > 0) THEN Err("SwapAmountIsZero")
    ELSE IF ~(estimated_result > 0) THEN Err("EstimatedResultIsZero")
    ELSE IF ~u16_add(providers_fee_rate_basis_points, protocol_fee_rate_basis_points).some
         THEN Err("Panic")
    ELSE IF ~(u16_add(providers_fee_rate_basis_points, protocol_fee_rate_basis_points).v <= 10000)
         THEN Err("ConfigFeeRateExceeded") ELSE
    The({
    The({IF ~protocol_fees_to_redeem.some THEN Err("SwapOverflowError")
         ELSE IF ~after_providers.some THEN Err("Panic") ELSE
    The({IF ~amount_after_fees.some THEN Err("SwapOverflowError") ELSE
    The({IF ~new_liquidity.some THEN Err("AfterswapCalculationFailed") ELSE
    The({IF ~amount_to_withdraw.some THEN Err("SwapOverflowError") ELSE
    The({IF ~product_check.ok THEN product_check ELSE
    The({IF ~result_check.ok THEN result_check
         ELSE Ok([base_liquidity |-> new_liquidity.v[1],
                  quote_liquidity |-> new_liquidity.v[2],
                  protocol_fees_to_redeem |-> protocol_fees_to_redeem.v,
                  providers_fees_to_redeem |-> providers_fees_to_redeem,
                  amount_to_withdraw |-> amount_to_withdraw.v,
                  is_in_out |-> is_in_out])
            : result_check \in {check_swap_result(amount_to_withdraw.v, estimated_result, allowed_slippage)}})
            : product_check \in {validate_swap_constant_product(amm, new_liquidity.v[1], new_liquidity.v[2])}})
            : amount_to_withdraw \in
                  {IF is_in_out THEN u64_checked_sub(amm.quote_liquidity, new_liquidity.v[2])
                                ELSE u64_checked_sub(amm.base_liquidity, new_liquidity.v[1])}})
            : new_liquidity \in {calculate_afterswap_liquidity(amm, amount_after_fees.v, is_in_out)}})
            : amount_after_fees \in {u64_checked_sub(after_providers.v, protocol_fee_amount)}})
            : protocol_fees_to_redeem \in
                  {u64_checked_add(IF is_in_out THEN amm.protocol_base_fees_to_redeem
                                                ELSE amm.protocol_quote_fees_to_redeem,
                                   protocol_fee_amount)},
              after_providers \in {u64_checked_sub(swap_amount, providers_fees_to_redeem)}})
            : providers_fees_to_redeem \in {calculate_fee_amount(swap_amount, providers_fee_rate_basis_points)},
              protocol_fee_amount \in {calculate_fee_amount(swap_amount, protocol_fee_rate_basis_points)}})

\* get_collect_fees_payload behind check_state, as the other payload
\* calculations are: the variant C10 is checked against
get_collect_fees_payload_checked(amm) ==
    IF ~check_state(amm).ok THEN check_state(amm)
    ELSE IF ~(amm.protocol_base_fees_to_redeem > 0 \/ amm.protocol_quote_fees_to_redeem > 0)
    THEN Err("ProvidersFeesIsZero")
    ELSE Ok([protocol_base_fees_to_redeem |-> amm.protocol_base_fees_to_redeem,
             protocol_quote_fees_to_redeem |-> amm.protocol_quote_fees_to_redeem,
             new_protocol_base_fees_to_redeem |-> 0,
             new_protocol_quote_fees_to_redeem |-> 0])

\* get_collect_fees_payload asking for fees in both accumulators: the
\* variant C19 is checked against
get_collect_fees_payload_both(amm) ==
    IF ~(amm.protocol_base_fees_to_redeem > 0 /\ amm.protocol_quote_fees_to_redeem > 0)
    THEN Err("ProvidersFeesIsZero")
    ELSE Ok([protocol_base_fees_to_redeem |-> amm.protocol_base_fees_to_redeem,
             protocol_quote_fees_to_redeem |-> amm.protocol_quote_fees_to_redeem,
             new_protocol_base_fees_to_redeem |-> 0,
             new_protocol_quote_fees_to_redeem |-> 0])

get_collect_fees_payload(amm) ==
    IF ~(amm.protocol_base_fees_to_redeem > 0 \/ amm.protocol_quote_fees_to_redeem > 0)
    THEN Err("ProvidersFeesIsZero")
    ELSE Ok([protocol_base_fees_to_redeem |-> amm.protocol_base_fees_to_redeem,
             protocol_quote_fees_to_redeem |-> amm.protocol_quote_fees_to_redeem,
             new_protocol_base_fees_to_redeem |-> 0,
             new_protocol_quote_fees_to_redeem |-> 0])

(***************************************************************************)
(* state/cp_amm/cp_amm.rs: the record and the functions that apply a       *)
(* payload to it.  Public keys, bumps and vault addresses are left out.    *)
(***************************************************************************)
\* the account before initialize has run: every field zero
ZeroCpAmm ==
    [is_initialized |-> FALSE,
     is_launched |-> FALSE,
     initial_locked_liquidity |-> 0,
     constant_product_sqrt |-> <<>>,
     base_quote_ratio_sqrt |-> <<>>,
     base_liquidity |-> 0,
     quote_liquidity |-> 0,
     lp_tokens_supply |-> 0,
     protocol_base_fees_to_redeem |-> 0,
     protocol_quote_fees_to_redeem |-> 0]

\* initialize without its requirement: the variant C21 is checked against
initialize_unchecked(amm) == Ok([amm EXCEPT !.is_launched = FALSE, !.is_initialized = TRUE])

initialize(amm) ==
    IF amm.is_initialized THEN Err("CpAmmAlreadyInitialized")
    ELSE Ok([amm EXCEPT !.is_launched = FALSE, !.is_initialized = TRUE])

launch(amm, launch_payload) ==
    [amm EXCEPT !.base_liquidity = launch_payload.base_liquidity,
                !.quote_liquidity = launch_payload.quote_liquidity,
                !.initial_locked_liquidity = launch_payload.initial_locked_liquidity,
                !.lp_tokens_supply = launch_payload.lp_tokens_supply,
                !.constant_product_sqrt = launch_payload.constant_product_sqrt,
                !.base_quote_ratio_sqrt = launch_payload.base_quote_ratio_sqrt]

provide(amm, provide_payload) ==
    [amm EXCEPT !.base_liquidity = provide_payload.base_liquidity,
                !.quote_liquidity = provide_payload.quote_liquidity,
                !.lp_tokens_supply = provide_payload.lp_tokens_supply,
                !.constant_product_sqrt = provide_payload.constant_product,
                !.base_quote_ratio_sqrt = provide_payload.base_quote_ratio_sqrt]

\* withdraw leaving the cached root of the constant product as it was: the
\* variant C15 is checked against
withdraw_keeping_constant_product(amm, withdraw_payload) ==
    Ok([amm EXCEPT !.base_liquidity = withdraw_payload.base_liquidity,
                   !.quote_liquidity = withdraw_payload.quote_liquidity,
                   !.lp_tokens_supply = withdraw_payload.lp_tokens_supply,
                   !.base_quote_ratio_sqrt = withdraw_payload.base_quote_ratio_sqrt])

\* Err("Panic") stands for the unwrap of None
withdraw(amm, withdraw_payload) ==
    The({IF ~constant_product_sqrt.some THEN Err("Panic")
         ELSE Ok([amm EXCEPT !.base_liquidity = withdraw_payload.base_liquidity,
                             !.quote_liquidity = withdraw_payload.quote_liquidity,
                             !.lp_tokens_supply = withdraw_payload.lp_tokens_supply,
                             !.constant_product_sqrt = constant_product_sqrt.v,
                             !.base_quote_ratio_sqrt = withdraw_payload.base_quote_ratio_sqrt])
            : constant_product_sqrt \in
                  {calculate_constant_product_sqrt(withdraw_payload.base_liquidity,
                                                   withdraw_payload.quote_liquidity)}})

\* swap leaving the providers' fee out of the reserve it was paid into: the
\* variant C11 is checked against
swap_without_providers_fees(amm, swap_payload) ==
    Ok([amm EXCEPT !.base_liquidity = swap_payload.base_liquidity,
                   !.quote_liquidity = swap_payload.quote_liquidity,
                   !.protocol_base_fees_to_redeem =
                       IF swap_payload.is_in_out THEN swap_payload.protocol_fees_to_redeem ELSE @,
                   !.protocol_quote_fees_to_redeem =
                       IF swap_payload.is_in_out THEN @ ELSE swap_payload.protocol_fees_to_redeem])

\* Err("Panic") stands for the overflow of += and for the unwrap of None
swap(amm, swap_payload) ==
    The({IF ~base.some \/ ~quote.some THEN Err("Panic") ELSE
    The({IF ~constant_product_sqrt.some \/ ~base_quote_ratio_sqrt.some THEN Err("Panic")
         ELSE Ok([amm EXCEPT !.base_liquidity = base.v,
                             !.quote_liquidity = quote.v,
                             !.protocol_base_fees_to_redeem =
                                 IF swap_payload.is_in_out THEN swap_payload.protocol_fees_to_redeem ELSE @,
                             !.protocol_quote_fees_to_redeem =
                                 IF swap_payload.is_in_out THEN @ ELSE swap_payload.protocol_fees_to_redeem,
                             !.constant_product_sqrt = constant_product_sqrt.v,
                             !.base_quote_ratio_sqrt = base_quote_ratio_sqrt.v])
            : constant_product_sqrt \in {calculate_constant_product_sqrt(base.v, quote.v)},
              base_quote_ratio_sqrt \in {calculate_base_quote_ratio_sqrt(base.v, quote.v)}})
            : base \in {IF swap_payload.is_in_out
                        THEN u64_checked_add(swap_payload.base_liquidity, swap_payload.providers_fees_to_redeem)
                        ELSE Some(swap_payload.base_liquidity)},
              quote \in {IF swap_payload.is_in_out
                         THEN Some(swap_payload.quote_liquidity)
                         ELSE u64_checked_add(swap_payload.quote_liquidity,
                                              swap_payload.providers_fees_to_redeem)}})

\* collect_fees writing the reserves instead of the accumulators: the
\* variant C3 is checked against
collect_fees_into_reserves(amm, collect_fees_payload) ==
    [amm EXCEPT !.base_liquidity = collect_fees_payload.new_protocol_base_fees_to_redeem,
                !.quote_liquidity = collect_fees_payload.new_protocol_quote_fees_to_redeem]

\* collect_fees leaving the accumulators as they are: the variant C20 is
\* checked against
collect_fees_keeping_accumulators(amm, collect_fees_payload) == amm

collect_fees(amm, collect_fees_payload) ==
    [amm EXCEPT !.protocol_base_fees_to_redeem = collect_fees_payload.new_protocol_base_fees_to_redeem,
                !.protocol_quote_fees_to_redeem = collect_fees_payload.new_protocol_quote_fees_to_redeem]

(***************************************************************************)
(* Bounds and the inputs the instructions are driven with.                 *)
(***************************************************************************)
\* instructions processed in one behaviour
MaxSteps == 4

\* instructions processed in one behaviour that starts from a launched pool
PoolSteps == 3

\* <<providers_fee_rate_basis_points, protocol_fee_rate_basis_points>> of the AmmsConfig
FeeConfigs == {<<30, 20>>}

\* <<base_liquidity, quote_liquidity>> offered to launch: sqrt(base * quote) is
\* 400000, 500000, 899999, 900000, 900000 and 1000000; two pairs carry a zero
LaunchInputs ==
    {<<400000, 400000>>, <<500000, 500000>>, <<899999, 900000>>, <<900000, 900000>>,
     <<1000000, 810000>>, <<0, 900000>>, <<900000, 0>>}

\* <<base_liquidity, quote_liquidity>> of the pools that are live from the start in SpecPool
PoolInputs ==
    {<<900000, 900000>>, <<1000000, 810000>>, <<4000000, 1000000>>, <<250000000, 250000000>>}

\* <<base_liquidity, quote_liquidity>> offered to provide
ProvideInputs ==
    {<<90000, 90000>>, <<100000, 81000>>, <<2000000, 500000>>, <<90000, 1>>, <<0, 90000>>}

\* lp_tokens offered to withdraw, besides the whole supply; 850000 of a supply
\* of 900000 reaches into the 100000 of the locked vault; 89999 and 1000000
\* are what the provides of ProvideInputs mint
WithdrawInputs == {0, 89999, 90000, 850000, 1000000}

\* <<swap_amount, estimated_result, allowed_slippage, is_in_out>> offered to swap
SwapInputs ==
    {<<1000000, 1, 1000000, TRUE>>, <<1000000, 1, 1000000, FALSE>>, <<1000000, 1, 0, TRUE>>,
     <<100000, 1, 1000000, TRUE>>, <<0, 1, 0, TRUE>>, <<1000, 0, 0, FALSE>>,
     <<100, 1, 1000000, TRUE>>}

\* instructions processed in one behaviour in which the AmmsConfig changes
ConfigSteps == 2

\* 16-bit rates offered to initialize_amms_config and to the two rate updates
FeeRateInputs == {0, 50, 9980, 65535}

\* <<base_liquidity, quote_liquidity>> of the pool that is live from the start in SpecConfig
ConfigPoolInputs == {<<250000000, 250000000>>}

\* the largest of the small values U256::sqrt is applied to
MaxSqrtInput == 150

\* values U256::sqrt is applied to: every value up to MaxSqrtInput, values
\* around 2^64, 2^128 and 2^255, and the largest ones
SqrtInputs ==
    {FromInt(n) : n \in 0..MaxSqrtInput}
        \cup {U64_MAX, Shl(<<1>>, 64), Add(Shl(<<1>>, 64), <<1>>), Add(Shl(<<1>>, 64), Shl(<<1>>, 31)),
              U128_MAX, Mul(U128_MAX, U128_MAX), Mul(U64_MAX, U128_MAX), Shl(<<1>>, 254),
              Add(Shl(<<1>>, 254), <<1>>), Shl(<<1>>, 255), Sub(U256_MAX, <<1>>), U256_MAX}

\* the largest of the small values the round trip of sqrt_from_u128 and
\* checked_square_as_u64 starts from
MaxRoundTripInput == 60

\* u128 values the round trip starts from: the small ones, values around
\* 2^32 and 2^63, the largest u64 and values of 2^64 and more
RoundTripInputs ==
    {FromInt(n) : n \in 0..MaxRoundTripInput}
        \cup {FromInt(65535), FromInt(65536), FromInt(1000000007), Sub(Shl(<<1>>, 32), <<1>>),
              Add(Shl(<<1>>, 32), <<1>>), Add(Shl(<<1>>, 63), FromInt(12345)), Sub(U64_MAX, <<1>>),
              U64_MAX, Shl(<<1>>, 64), Add(Shl(<<1>>, 64), <<1>>), Shl(<<1>>, 100), U128_MAX}

\* the largest number of quarters among the Q64_128 values that are squared
MaxQuarters == 40

\* Q64_128 values that are squared: the multiples of 1/4 up to MaxQuarters / 4,
\* values around 2^32, whose square is around 2^64, and the largest value
SquareInputs ==
    {Shl(FromInt(n), FRACTIONAL_BITS - 2) : n \in 0..MaxQuarters}
        \cup {Sub(Shl(ONE, 32), <<1>>), Shl(ONE, 32), Sub(Shl(ONE, 32), ONE),
              Add(Sub(Shl(ONE, 32), ONE), Shl(<<1>>, 127)), MAX}

(***************************************************************************)
(* The program as a state machine.  One action is one instruction of the   *)
(* program, handled from the account constraints to the final apply, or    *)
(* one call of a payload computation of the core on a record the           *)
(* instructions' constraints keep away from it.  A failed instruction is   *)
(* rolled back by the runtime: the record keeps its value and the          *)
(* behaviour ends there, since what can follow a failed instruction is     *)
(* what can follow the state before it.                                    *)
(***************************************************************************)
VARIABLES
    cp_amm,          \* the CpAmm account
    amms_config,     \* the AmmsConfig account the pool was created under
    op,              \* the last instruction or core call
    args,            \* its arguments
    result,          \* "Ok" or the error it returned
    cpi_total,       \* transfers, mints and burns the last instruction had to execute
    cpi_done,        \* how many of them completed
    launch_applied,  \* CpAmm::launch has run on the record
    steps,           \* instructions and calls so far
    cp_amm_base_vault,       \* base tokens the pool's base vault holds
    cp_amm_quote_vault,      \* quote tokens the pool's quote vault holds
    cp_amm_locked_lp_vault,  \* LP tokens the pool's locked vault holds
    lp_mint                  \* supply of the LP mint: LP tokens minted and not burned

\* the token accounts of the pool and its LP mint
token_accounts == <<cp_amm_base_vault, cp_amm_quote_vault, cp_amm_locked_lp_vault, lp_mint>>

vars == <<cp_amm, amms_config, overflow_checks, op, args, result, cpi_total, cpi_done, launch_applied, steps, token_accounts>>

\* the record CpAmmBuilder builds for the tests of the launched pool: the
\* fields launch writes, with is_launched set
LaunchedCpAmm(base_liquidity, quote_liquidity) ==
    The({[launch(initialize(ZeroCpAmm).v, payload.v) EXCEPT !.is_launched = TRUE]
            : payload \in {get_launch_payload(initialize(ZeroCpAmm).v, base_liquidity, quote_liquidity)}})

\* the AmmsConfig account after initialize_amms_config(protocol, providers)
InitializedAmmsConfig(providers_fee_rate_basis_points, protocol_fee_rate_basis_points) ==
    [is_initialized |-> TRUE,
     providers_fee_rate_basis_points |-> providers_fee_rate_basis_points,
     protocol_fee_rate_basis_points |-> protocol_fee_rate_basis_points]

InitAccounts(amm, config, applied, n) ==
    /\ cp_amm = amm
    /\ amms_config = config
    /\ overflow_checks \in BOOLEAN
    /\ op = "none"
    /\ args = <<>>
    /\ result = "Ok"
    /\ cpi_total = 0
    /\ cpi_done = 0
    /\ launch_applied = applied
    /\ steps = n
    /\ cp_amm_base_vault = amm.base_liquidity
    /\ cp_amm_quote_vault = amm.quote_liquidity
    /\ cp_amm_locked_lp_vault = amm.initial_locked_liquidity
    /\ lp_mint = amm.lp_tokens_supply

InitVars(amm, applied, n) ==
    \E fees \in FeeConfigs : InitAccounts(amm, InitializedAmmsConfig(fees[1], fees[2]), applied, n)

\* the account before initialize_cp_amm
Init == InitVars(ZeroCpAmm, FALSE, 0)

\* the account before initialize_cp_amm, or a launched pool, PoolSteps short of the end
InitPool ==
    \/ InitVars(ZeroCpAmm, FALSE, MaxSteps - PoolSteps)
    \/ \E pool \in PoolInputs : InitVars(LaunchedCpAmm(pool[1], pool[2]), TRUE, MaxSteps - PoolSteps)

Return(o, a, r, total, done, amm, applied) ==
    /\ op' = o
    /\ args' = a
    /\ result' = r
    /\ cpi_total' = total
    /\ cpi_done' = done
    /\ cp_amm' = amm
    /\ launch_applied' = applied
    /\ steps' = steps + 1
    /\ UNCHANGED <<amms_config, overflow_checks>>

\* the LP account of any signer and the locked vault alike: the variant C23
\* is checked against
signer_lp_account_or_locked_vault == lp_mint

\* the most the LP account of a signer holds, which is the most the burn of
\* withdraw_from_cp_amm can take from it: no signer has authority over the
\* locked vault
signer_lp_account == lp_mint - cp_amm_locked_lp_vault

\* what the CPIs of an instruction move when it succeeds: tokens into the two
\* vaults and into the locked vault, and LP tokens minted; a failed
\* instruction is rolled back with everything its CPIs moved
Moves(base, quote, locked_lp, lp) ==
    IF result' = "Ok"
    THEN /\ cp_amm_base_vault' = cp_amm_base_vault + base
         /\ cp_amm_quote_vault' = cp_amm_quote_vault + quote
         /\ cp_amm_locked_lp_vault' = cp_amm_locked_lp_vault + locked_lp
         /\ lp_mint' = lp_mint + lp
    ELSE UNCHANGED token_accounts

Fail(o, a, r) == Return(o, a, r, 0, 0, cp_amm, launch_applied) /\ UNCHANGED token_accounts

\* a handler tail that applies before its CPIs and has nothing undo it: the
\* variant C5 is checked against
Execute_apply_first(o, a, total, applied, launched) ==
    \E done \in 0..total :
        IF ~applied.ok THEN Return(o, a, applied.err, total, done, cp_amm, launch_applied)
        ELSE Return(o, a, IF done < total THEN "ExternalFailure" ELSE "Ok", total, done,
                    applied.v, launched)

\* the tail of a handler: its `total` CPIs one after the other, each ending
\* the instruction when it fails, then the apply (applied is its Result)
Execute(o, a, total, applied, launched) ==
    \E done \in 0..total :
        IF done < total THEN Return(o, a, "ExternalFailure", total, done, cp_amm, launch_applied)
        ELSE IF ~applied.ok THEN Return(o, a, applied.err, total, done, cp_amm, launch_applied)
        ELSE Return(o, a, "Ok", total, done, applied.v, launched)

InitializeCpAmm ==
    /\ steps < MaxSteps /\ result = "Ok"
    /\ \E mints_valid \in BOOLEAN :
           IF cp_amm.is_initialized THEN Fail("initialize", <<>>, "AccountAlreadyInUse")
           ELSE IF ~mints_valid THEN Fail("initialize", <<>>, "InvalidAccounts")
           ELSE IF ~amms_config.is_initialized THEN Fail("initialize", <<>>, "AccountNotInitialized")
           ELSE \E applied \in {initialize(cp_amm)} :
                    Execute("initialize", <<>>, 0, applied, launch_applied) /\ UNCHANGED token_accounts

LaunchCpAmm ==
    /\ steps < MaxSteps /\ result = "Ok"
    /\ \E in \in LaunchInputs, accounts_valid \in BOOLEAN :
           IF ~cp_amm.is_initialized THEN Fail("launch", in, "AccountNotInitialized")
           ELSE IF cp_amm.is_launched THEN Fail("launch", in, "ConstraintRaw")
           ELSE IF ~accounts_valid THEN Fail("launch", in, "InvalidAccounts")
           ELSE \E payload \in {get_launch_payload(cp_amm, in[1], in[2])} :
                    IF ~payload.ok THEN Fail("launch", in, payload.err)
                    ELSE \E applied \in {Ok(launch(cp_amm, payload.v))} :
                             /\ Execute("launch", in, 4, applied, TRUE)
                             /\ Moves(in[1], in[2], payload.v.initial_locked_liquidity,
                                      payload.v.lp_tokens_supply)

\* provide_to_cp_amm adding the amounts to the reserves before the payload
\* calculation validates them: the variant C4 is checked against
ProvideToCpAmm_write_first ==
    /\ steps < MaxSteps /\ result = "Ok"
    /\ \E in \in ProvideInputs, accounts_valid \in BOOLEAN :
           IF ~cp_amm.is_initialized THEN Fail("provide", in, "AccountNotInitialized")
           ELSE IF ~cp_amm.is_launched THEN Fail("provide", in, "ConstraintRaw")
           ELSE IF ~accounts_valid THEN Fail("provide", in, "InvalidAccounts")
           ELSE \E payload \in {get_provide_payload(cp_amm, in[1], in[2])} :
                    IF ~payload.ok
                    THEN /\ Return("provide", in, payload.err, 0, 0,
                                   [cp_amm EXCEPT !.base_liquidity = @ + in[1],
                                                  !.quote_liquidity = @ + in[2]], launch_applied)
                         /\ UNCHANGED token_accounts
                    ELSE \E applied \in {Ok(provide(cp_amm, payload.v))} :
                             /\ Execute("provide", in, 3, applied, launch_applied)
                             /\ Moves(in[1], in[2], 0, payload.v.lp_tokens_to_mint)

ProvideToCpAmm ==
    /\ steps < MaxSteps /\ result = "Ok"
    /\ \E in \in ProvideInputs, accounts_valid \in BOOLEAN :
           IF ~cp_amm.is_initialized THEN Fail("provide", in, "AccountNotInitialized")
           ELSE IF ~cp_amm.is_launched THEN Fail("provide", in, "ConstraintRaw")
           ELSE IF ~accounts_valid THEN Fail("provide", in, "InvalidAccounts")
           ELSE \E payload \in {get_provide_payload(cp_amm, in[1], in[2])} :
                    IF ~payload.ok THEN Fail("provide", in, payload.err)
                    ELSE \E applied \in {Ok(provide(cp_amm, payload.v))} :
                             /\ Execute("provide", in, 3, applied, launch_applied)
                             /\ Moves(in[1], in[2], 0, payload.v.lp_tokens_to_mint)

WithdrawFromCpAmm ==
    /\ steps < MaxSteps /\ result = "Ok"
    /\ \E lp_tokens \in WithdrawInputs \cup {cp_amm.lp_tokens_supply}, accounts_valid \in BOOLEAN :
           IF ~cp_amm.is_initialized THEN Fail("withdraw", <<lp_tokens>>, "AccountNotInitialized")
           ELSE IF ~cp_amm.is_launched THEN Fail("withdraw", <<lp_tokens>>, "ConstraintRaw")
           ELSE \E payload \in {get_withdraw_payload(cp_amm, lp_tokens)} :
                    IF ~payload.ok THEN Fail("withdraw", <<lp_tokens>>, payload.err)
                    ELSE IF ~accounts_valid THEN Fail("withdraw", <<lp_tokens>>, "InvalidAccounts")
                    ELSE \E applied \in {withdraw(cp_amm, payload.v)} :
                             /\ Execute("withdraw", <<lp_tokens>>, 3, applied, launch_applied)
                             /\ lp_tokens > signer_lp_account => cpi_done' = 0
                             /\ Moves(-payload.v.base_withdraw_amount, payload.v.quote_withdraw_amount,
                                      0, -lp_tokens)

SwapInCpAmm ==
    /\ steps < MaxSteps /\ result = "Ok"
    /\ \E in \in SwapInputs, accounts_valid \in BOOLEAN :
           IF ~cp_amm.is_initialized THEN Fail("swap", in, "AccountNotInitialized")
           ELSE IF ~cp_amm.is_launched THEN Fail("swap", in, "ConstraintRaw")
           ELSE IF ~accounts_valid THEN Fail("swap", in, "InvalidAccounts")
           ELSE \E payload \in {get_swap_payload(cp_amm, in[1], in[2], in[3],
                                                 amms_config.providers_fee_rate_basis_points,
                                                 amms_config.protocol_fee_rate_basis_points, in[4])} :
                    IF ~payload.ok THEN Fail("swap", in, payload.err)
                    ELSE \E applied \in {swap(cp_amm, payload.v)} :
                             /\ Execute("swap", in, 2, applied, launch_applied)
                             /\ IF in[4] THEN Moves(in[1], -payload.v.amount_to_withdraw, 0, 0)
                                         ELSE Moves(-payload.v.amount_to_withdraw, in[1], 0, 0)

\* a transfer is built and executed for each accumulator that is not zero
CollectFeesFromCpAmm ==
    /\ steps < MaxSteps /\ result = "Ok"
    /\ IF ~cp_amm.is_initialized THEN Fail("collect_fees", <<>>, "AccountNotInitialized")
       ELSE IF ~cp_amm.is_launched THEN Fail("collect_fees", <<>>, "ConstraintRaw")
       ELSE \E payload \in {get_collect_fees_payload(cp_amm)} :
                IF ~payload.ok THEN Fail("collect_fees", <<>>, payload.err)
                ELSE \E applied \in {Ok(collect_fees(cp_amm, payload.v))} :
                         /\ Execute("collect_fees", <<>>,
                                    (IF payload.v.protocol_base_fees_to_redeem > 0 THEN 1 ELSE 0)
                                        + (IF payload.v.protocol_quote_fees_to_redeem > 0 THEN 1 ELSE 0),
                                    applied, launch_applied)
                         /\ Moves(-payload.v.protocol_base_fees_to_redeem,
                                  -payload.v.protocol_quote_fees_to_redeem, 0, 0)

\* the payload computations of the core on a record that is not launched,
\* which no instruction passes to them
GetProvidePayload ==
    /\ steps < MaxSteps /\ result = "Ok" /\ ~cp_amm.is_launched
    /\ \E in \in ProvideInputs :
           \E payload \in {get_provide_payload(cp_amm, in[1], in[2])} :
               Fail("get_provide_payload", in, IF payload.ok THEN "Ok" ELSE payload.err)

GetWithdrawPayload ==
    /\ steps < MaxSteps /\ result = "Ok" /\ ~cp_amm.is_launched
    /\ \E lp_tokens \in WithdrawInputs \cup {cp_amm.lp_tokens_supply} :
           \E payload \in {get_withdraw_payload(cp_amm, lp_tokens)} :
               Fail("get_withdraw_payload", <<lp_tokens>>, IF payload.ok THEN "Ok" ELSE payload.err)

GetSwapPayload ==
    /\ steps < MaxSteps /\ result = "Ok" /\ ~cp_amm.is_launched
    /\ \E in \in SwapInputs :
           \E payload \in {get_swap_payload(cp_amm, in[1], in[2], in[3],
                                            amms_config.providers_fee_rate_basis_points,
                                            amms_config.protocol_fee_rate_basis_points, in[4])} :
               Fail("get_swap_payload", in, IF payload.ok THEN "Ok" ELSE payload.err)

GetCollectFeesPayload ==
    /\ steps < MaxSteps /\ result = "Ok" /\ ~cp_amm.is_launched
    /\ \E payload \in {get_collect_fees_payload(cp_amm)} :
           Fail("get_collect_fees_payload", <<>>, IF payload.ok THEN "Ok" ELSE payload.err)

\* CpAmm::initialize on a record that is initialized, which the init
\* constraint of initialize_cp_amm keeps away from it
Initialize ==
    /\ steps < MaxSteps /\ result = "Ok" /\ cp_amm.is_initialized
    /\ \E applied \in {initialize(cp_amm)} :
           IF ~applied.ok THEN Fail("CpAmm::initialize", <<>>, applied.err)
           ELSE Return("CpAmm::initialize", <<>>, "Ok", 0, 0, applied.v, launch_applied)
                    /\ UNCHANGED token_accounts

\* the end of an instruction on the AmmsConfig account
ReturnConfig(o, a, r, config) ==
    /\ op' = o
    /\ args' = a
    /\ result' = r
    /\ cpi_total' = 0
    /\ cpi_done' = 0
    /\ amms_config' = config
    /\ steps' = steps + 1
    /\ UNCHANGED <<cp_amm, launch_applied, overflow_checks, token_accounts>>

\* the account is created by the instruction, which fails when it exists
InitializeAmmsConfig ==
    /\ steps < MaxSteps /\ result = "Ok"
    /\ \E protocol \in FeeRateInputs, providers \in FeeRateInputs, authority_valid \in BOOLEAN :
           IF amms_config.is_initialized
           THEN ReturnConfig("initialize_amms_config", <<protocol, providers>>, "AccountAlreadyInUse", amms_config)
           ELSE IF ~authority_valid
           THEN ReturnConfig("initialize_amms_config", <<protocol, providers>>, "ConstraintRaw", amms_config)
           ELSE \E applied \in {AmmsConfig_initialize(amms_config, protocol, providers)} :
                    IF ~applied.ok
                    THEN ReturnConfig("initialize_amms_config", <<protocol, providers>>, applied.err, amms_config)
                    ELSE ReturnConfig("initialize_amms_config", <<protocol, providers>>, "Ok",
                                      [applied.v EXCEPT !.is_initialized = TRUE])

UpdateAmmsConfigProvidersFeeRate ==
    /\ steps < MaxSteps /\ result = "Ok"
    /\ \E new \in FeeRateInputs, authority_valid \in BOOLEAN :
           IF ~amms_config.is_initialized
           THEN ReturnConfig("update_providers_fee_rate", <<new>>, "AccountNotInitialized", amms_config)
           ELSE IF ~authority_valid
           THEN ReturnConfig("update_providers_fee_rate", <<new>>, "ConstraintRaw", amms_config)
           ELSE \E applied \in {update_providers_fee_rate(amms_config, new)} :
                    IF ~applied.ok
                    THEN ReturnConfig("update_providers_fee_rate", <<new>>, applied.err, amms_config)
                    ELSE ReturnConfig("update_providers_fee_rate", <<new>>, "Ok", applied.v)

UpdateAmmsConfigProtocolFeeRate ==
    /\ steps < MaxSteps /\ result = "Ok"
    /\ \E new \in FeeRateInputs, authority_valid \in BOOLEAN :
           IF ~amms_config.is_initialized
           THEN ReturnConfig("update_protocol_fee_rate", <<new>>, "AccountNotInitialized", amms_config)
           ELSE IF ~authority_valid
           THEN ReturnConfig("update_protocol_fee_rate", <<new>>, "ConstraintRaw", amms_config)
           ELSE \E applied \in {update_protocol_fee_rate(amms_config, new)} :
                    IF ~applied.ok
                    THEN ReturnConfig("update_protocol_fee_rate", <<new>>, applied.err, amms_config)
                    ELSE ReturnConfig("update_protocol_fee_rate", <<new>>, "Ok", applied.v)

\* CpAmm::get_swap_payload on a launched pool with any two 16-bit rates,
\* where swap_in_cp_amm passes the two rates of the AmmsConfig
GetSwapPayloadAtRates ==
    /\ steps < MaxSteps /\ result = "Ok" /\ cp_amm.is_launched
    /\ \E in \in SwapInputs, providers \in FeeRateInputs, protocol \in FeeRateInputs :
           \E payload \in {get_swap_payload(cp_amm, in[1], in[2], in[3], providers, protocol, in[4])} :
               Fail("CpAmm::get_swap_payload", in \o <<providers, protocol>>,
                    IF payload.ok THEN "Ok" ELSE payload.err)

\* the instructions on the pool, under an AmmsConfig that stays as it is
Next ==
    \/ InitializeCpAmm
    \/ LaunchCpAmm
    \/ ProvideToCpAmm
    \/ WithdrawFromCpAmm
    \/ SwapInCpAmm
    \/ CollectFeesFromCpAmm
    \/ GetProvidePayload
    \/ GetWithdrawPayload
    \/ GetSwapPayload
    \/ GetCollectFeesPayload
    \/ Initialize

\* from the account before initialize_cp_amm
Spec == Init /\ [][Next]_vars

\* from launched pools as well
SpecPool == InitPool /\ [][Next]_vars

\* the accounts before initialize_amms_config, or a launched pool under its
\* AmmsConfig, ConfigSteps short of the end
InitConfig ==
    \/ InitAccounts(ZeroCpAmm, ZeroAmmsConfig, FALSE, MaxSteps - ConfigSteps)
    \/ \E pool \in ConfigPoolInputs :
           InitVars(LaunchedCpAmm(pool[1], pool[2]), TRUE, MaxSteps - ConfigSteps)

\* the instructions on the pool and on its AmmsConfig
NextConfig ==
    \/ Next
    \/ InitializeAmmsConfig
    \/ UpdateAmmsConfigProvidersFeeRate
    \/ UpdateAmmsConfigProtocolFeeRate
    \/ GetSwapPayloadAtRates

SpecConfig == InitConfig /\ [][NextConfig]_vars

(***************************************************************************)
(* The functions of utils/math applied to their arguments, as the tests of *)
(* u256.rs and q64_128.rs apply them: one call in a behaviour, its value   *)
(* kept in result.                                                         *)
(***************************************************************************)
Returned(o, a, r) ==
    /\ op' = o
    /\ args' = a
    /\ result' = r
    /\ steps' = steps + 1
    /\ UNCHANGED <<cp_amm, amms_config, overflow_checks, cpi_total, cpi_done, launch_applied, token_accounts>>

U256Sqrt ==
    /\ steps = 0
    /\ \E value \in SqrtInputs : Returned("U256::sqrt", <<value>>, sqrt(value))

\* args keeps the value and its square root
SqrtAndSquareRoundTrip ==
    /\ steps = 0
    /\ \E value \in RoundTripInputs :
           \E root \in {sqrt_from_u128(value)} :
               Returned("sqrt_from_u128, checked_square_as_u64", <<value, root>>, checked_square_as_u64(root))

CheckedSquareAsU64 ==
    /\ steps = 0
    /\ \E q \in SquareInputs : Returned("Q64_128::checked_square_as_u64", <<q>>, checked_square_as_u64(q))

\* on the squares of the same values as Q64_64, which are U256 with 128 fractional bits
CheckedQ128_128ToU64Round ==
    /\ steps = 0
    /\ \E q \in SquareInputs :
           \E square \in {Shr(Mul(q, q), 128)} :
               IF BitLen(square) > 256 THEN FALSE
               ELSE Returned("U256::checked_q128_128_to_u64_round", <<square>>,
                             checked_q128_128_to_u64_round(square))

InitMath == InitAccounts(ZeroCpAmm, ZeroAmmsConfig, FALSE, 0)

NextMath ==
    \/ U256Sqrt
    \/ SqrtAndSquareRoundTrip
    \/ CheckedSquareAsU64
    \/ CheckedQ128_128ToU64Round

SpecMath == InitMath /\ [][NextMath]_vars

(***************************************************************************)
(* The claims about the lifecycle, the error paths and the launch.         *)
(***************************************************************************)
\* results with which launch_cp_amm ends before get_launch_payload is called
LaunchRejections == {"AccountNotInitialized", "ConstraintRaw", "InvalidAccounts"}

\* the payload calculations called on a record, outside an instruction
CoreCalls == {"get_provide_payload", "get_withdraw_payload", "get_swap_payload"}

\* C1: right after the apply of a successful launch the record is launched
\* and still initialized.
C1_LaunchMovesToLaunched ==
    (op = "launch" /\ result = "Ok") => (cp_amm.is_launched /\ cp_amm.is_initialized)

\* C2: once a launch has been applied to the record, every later launch
\* whose calculation is reached fails with CpAmmAlreadyLaunched and leaves
\* reserves, supply and caches as they were.
C2_LaunchOnlyOnce ==
    [][(launch_applied /\ op' = "launch" /\ result' \notin LaunchRejections)
           => (result' = "CpAmmAlreadyLaunched" /\ cp_amm' = cp_amm)]_vars

\* C3: a launched record has positive reserves and a positive supply, in
\* every state the instructions reach.
C3_LaunchedIsFunded ==
    cp_amm.is_launched
        => (cp_amm.base_liquidity > 0 /\ cp_amm.quote_liquidity > 0 /\ cp_amm.lp_tokens_supply > 0)

\* a launched pool after a swap, a withdrawal or a collection of fees went through
C3_Witness ==
    /\ cp_amm.is_launched
    /\ op \in {"swap", "withdraw", "collect_fees"}
    /\ result = "Ok"
    /\ steps = MaxSteps

\* C4: when a launch, provide, withdraw, swap or collect_fees (instruction or
\* payload calculation) returns an error, every field of the record is what
\* it was before.
C4_ErrorLeavesRecord ==
    [][(op' \in {"launch", "provide", "withdraw", "swap", "collect_fees", "get_collect_fees_payload"}
                    \cup CoreCalls
            /\ result' # "Ok")
           => cp_amm' = cp_amm]_vars

\* a provide refused by the validation of the liquidity ratio, on a launched pool
C4_Witness ==
    /\ cp_amm.is_launched
    /\ op = "provide"
    /\ result = "LiquidityRatioToleranceExceeded"

\* C5: the record changes only in an instruction all of whose transfers,
\* mints and burns completed; when one of them fails the record is what it
\* was before.
C5_ApplyAfterTransfers ==
    [][/\ cp_amm' # cp_amm => (cpi_done' = cpi_total' /\ result' = "Ok")
       /\ cpi_done' < cpi_total' => (cp_amm' = cp_amm /\ result' = "ExternalFailure")]_vars

\* a withdrawal whose burn and first transfer went through and whose second transfer failed
C5_Witness ==
    /\ cp_amm.is_launched
    /\ op = "withdraw"
    /\ args = <<90000>>
    /\ cpi_total = 3
    /\ cpi_done = 2
    /\ result = "ExternalFailure"

C7_LaunchThreshold ==
    (op = "launch" /\ result \notin LaunchRejections /\ args[1] > 0 /\ args[2] > 0)
        => LET lp_supply == ToInt(integer_sqrt(Mul(FromInt(args[1]), FromInt(args[2]))))
           IN  IF lp_supply - INITIAL_LOCKED_LP_TOKENS >= 4 * INITIAL_LOCKED_LP_TOKENS
               THEN result \in {"Ok", "ExternalFailure"}
               ELSE result = "LaunchLiquidityTooSmall"

\* C8: the launch with 400000 and 400000 succeeds, with a constant product
\* root of 400000, a ratio root of 1, a supply of 400000 and 100000 locked.
C8_LaunchExample ==
    (op = "launch" /\ result \notin LaunchRejections /\ args = <<400000, 400000>>)
        => /\ result \in {"Ok", "ExternalFailure"}
           /\ result = "Ok" => /\ cp_amm.constant_product_sqrt = from_u64(400000)
                               /\ cp_amm.base_quote_ratio_sqrt = ONE
                               /\ cp_amm.lp_tokens_supply = 400000
                               /\ cp_amm.initial_locked_liquidity = 100000

\* C9: the provide, withdraw and swap payload calculations on a record that
\* is not launched fail with CpAmmNotLaunched.
C9_NotLaunchedRefused ==
    (op \in CoreCalls /\ ~cp_amm.is_launched) => result = "CpAmmNotLaunched"

\* a swap payload asked of the record launch has been applied to
C9_Witness ==
    /\ op = "get_swap_payload"
    /\ launch_applied
    /\ ~cp_amm.is_launched
    /\ cp_amm.base_liquidity > 0
    /\ result = "CpAmmNotLaunched"

\* C10 as stated: the collect_fees payload calculation on a record that is
\* not launched fails with CpAmmNotLaunched.
C10_CollectChecksLifecycle ==
    (op = "get_collect_fees_payload" /\ ~cp_amm.is_launched) => result = "CpAmmNotLaunched"

\* C10, amended: the collect_fees payload calculation looks at the two
\* accumulators alone, so on a record that is not launched it fails with
\* ProvidersFeesIsZero; it is the instruction's account constraint that
\* turns a record that is not launched away, before the calculation.
C10_CollectChecksFeesOnly ==
    /\ (op = "get_collect_fees_payload" /\ ~cp_amm.is_launched)
           => (result = "ProvidersFeesIsZero"
               /\ cp_amm.protocol_base_fees_to_redeem = 0 /\ cp_amm.protocol_quote_fees_to_redeem = 0)
    /\ (op = "collect_fees" /\ ~cp_amm.is_launched)
           => result \in {"AccountNotInitialized", "ConstraintRaw"}

\* the collect_fees payload asked of the record launch has been applied to
C10_Witness ==
    /\ op = "get_collect_fees_payload"
    /\ launch_applied
    /\ ~cp_amm.is_launched
    /\ result = "ProvidersFeesIsZero"

(***************************************************************************)
(* The claims about the swap and its fees.                                 *)
(***************************************************************************)
\* C11: a successful swap of swap_amount raises the reserve of the side paid
\* in by swap_amount minus the protocol fee, raises the accumulator of that
\* side by the protocol fee, floor(swap_amount * protocol rate / 10000), and
\* leaves the accumulator of the other side alone.
C11_SwapFeeSplit ==
    [][(op' = "swap" /\ result' = "Ok")
           => \E fee \in {(args'[1] * amms_config.protocol_fee_rate_basis_points) \div FEE_MAX_BASIS_POINTS} :
                  IF args'[4]
                  THEN /\ cp_amm'.base_liquidity = cp_amm.base_liquidity + args'[1] - fee
                       /\ cp_amm'.protocol_base_fees_to_redeem = cp_amm.protocol_base_fees_to_redeem + fee
                       /\ cp_amm'.protocol_quote_fees_to_redeem = cp_amm.protocol_quote_fees_to_redeem
                  ELSE /\ cp_amm'.quote_liquidity = cp_amm.quote_liquidity + args'[1] - fee
                       /\ cp_amm'.protocol_quote_fees_to_redeem = cp_amm.protocol_quote_fees_to_redeem + fee
                       /\ cp_amm'.protocol_base_fees_to_redeem = cp_amm.protocol_base_fees_to_redeem]_vars

\* a second swap from base to quote, on top of the fee the first one set aside
C11_Witness ==
    /\ op = "swap"
    /\ result = "Ok"
    /\ args[4]
    /\ cp_amm.protocol_base_fees_to_redeem > (args[1] * amms_config.protocol_fee_rate_basis_points) \div FEE_MAX_BASIS_POINTS
    /\ cp_amm.base_liquidity > 250000000

(***************************************************************************)
(* The claims about the AmmsConfig and its fee rates.                      *)
(***************************************************************************)
\* the instructions on the AmmsConfig account
ConfigCalls == {"initialize_amms_config", "update_providers_fee_rate", "update_protocol_fee_rate"}

\* results with which an instruction on the AmmsConfig ends before the rates are looked at
ConfigRejections == {"AccountAlreadyInUse", "AccountNotInitialized", "ConstraintRaw"}

\* the sum of the rates the instruction that ends in the primed state asked for
RequestedRateSum ==
    IF op' = "initialize_amms_config" THEN args'[1] + args'[2]
    ELSE IF op' = "update_providers_fee_rate" THEN args'[1] + amms_config.protocol_fee_rate_basis_points
    ELSE args'[1] + amms_config.providers_fee_rate_basis_points

\* C12: the stored rates never add up to more than 10000, and an initialize
\* or update of the AmmsConfig that asks for rates adding up to more than
\* 10000 fails with ConfigFeeRateExceeded and leaves the stored rates alone.
C12_FeeRateSumBounded ==
    [][/\ amms_config'.providers_fee_rate_basis_points + amms_config'.protocol_fee_rate_basis_points
              <= FEE_MAX_BASIS_POINTS
       /\ (op' \in ConfigCalls /\ result' \notin ConfigRejections /\ RequestedRateSum > FEE_MAX_BASIS_POINTS)
              => (result' = "ConfigFeeRateExceeded" /\ amms_config' = amms_config)]_vars

\* C13: a successful swap charges the fees of the rates the AmmsConfig had
\* when the pool was initialized, whatever the rates of the AmmsConfig are
\* when the swap runs: the record after the swap is the one the swap
\* calculation gives with the rates the pool was created under.
C13_RatesAsOfInitialize ==
    [][(op' = "swap" /\ result' = "Ok")
           => \E fees \in FeeConfigs :
                  \E payload \in {get_swap_payload(cp_amm, args'[1], args'[2], args'[3], fees[1], fees[2], args'[4])} :
                      payload.ok /\ swap(cp_amm, payload.v) = Ok(cp_amm')]_vars

\* results with which swap_in_cp_amm ends before get_swap_payload is called
SwapRejections == {"AccountNotInitialized", "ConstraintRaw", "InvalidAccounts"}

\* the payload of the swap that ends in the primed state, had any output been
\* allowed: the slippage is replaced by one no output can exceed
UnboundedSwapPayload ==
    get_swap_payload(cp_amm, args'[1], args'[2],
                     args'[2] + cp_amm.base_liquidity + cp_amm.quote_liquidity,
                     amms_config.providers_fee_rate_basis_points,
                     amms_config.protocol_fee_rate_basis_points, args'[4])

\* C14: a swap whose output is zero fails with SwapResultIsZero; a swap
\* whose output is further from estimated_result than allowed_slippage
\* fails with SwapSlippageExceeded; both leave the record alone.  A swap that
\* succeeds pays out the output as calculated, which is positive and within
\* allowed_slippage of estimated_result.
C14_SwapResultChecked ==
    [][(op' = "swap" /\ result' \notin SwapRejections)
           => \E free \in {UnboundedSwapPayload} :
                  /\ (~free.ok /\ free.err = "SwapResultIsZero")
                         => (result' = "SwapResultIsZero" /\ cp_amm' = cp_amm)
                  /\ (free.ok /\ (\/ free.v.amount_to_withdraw - args'[2] > args'[3]
                                  \/ args'[2] - free.v.amount_to_withdraw > args'[3]))
                         => (result' = "SwapSlippageExceeded" /\ cp_amm' = cp_amm)
                  /\ result' \in {"SwapResultIsZero", "SwapSlippageExceeded"}
                         => (IF free.ok THEN result' = "SwapSlippageExceeded"
                                        ELSE free.err = "SwapResultIsZero")
                  /\ result' = "Ok"
                         => /\ free.ok
                            /\ free.v.amount_to_withdraw > 0
                            /\ free.v.amount_to_withdraw - args'[2] <= args'[3]
                            /\ args'[2] - free.v.amount_to_withdraw <= args'[3]
                            /\ IF args'[4]
                               THEN cp_amm'.quote_liquidity = cp_amm.quote_liquidity - free.v.amount_to_withdraw
                               ELSE cp_amm'.base_liquidity = cp_amm.base_liquidity - free.v.amount_to_withdraw]_vars

\* a swap refused for its slippage after the AmmsConfig changed; nothing was paid out
C14_Witness ==
    /\ op = "swap"
    /\ result = "SwapSlippageExceeded"
    /\ args[3] = 0
    /\ amms_config.protocol_fee_rate_basis_points = 50
    /\ cp_amm.quote_liquidity = 250000000

(***************************************************************************)
(* The claims about the cached roots, provide and withdraw.                *)
(***************************************************************************)
\* x and y, both scaled by 2^256, differ by at most y / 10^8
WithinTolerance(x, y) == Cmp(Mul(abs_diff(x, y), FromInt(100000000)), y) <= 0

\* C15: after a successful launch, provide, withdraw or swap the square of
\* the cached constant_product_sqrt is within a 10^-8 part of base_liquidity
\* times quote_liquidity, and the square of the cached base_quote_ratio_sqrt
\* within a 10^-8 part of base_liquidity over quote_liquidity, for the
\* reserves the record holds.
C15_CachesMatchReserves ==
    (op \in {"launch", "provide", "withdraw", "swap"} /\ result = "Ok")
        => /\ WithinTolerance(Mul(cp_amm.constant_product_sqrt, cp_amm.constant_product_sqrt),
                              Shl(Mul(FromInt(cp_amm.base_liquidity), FromInt(cp_amm.quote_liquidity)),
                                  2 * FRACTIONAL_BITS))
           /\ WithinTolerance(Mul(Mul(cp_amm.base_quote_ratio_sqrt, cp_amm.base_quote_ratio_sqrt),
                                  FromInt(cp_amm.quote_liquidity)),
                              Shl(FromInt(cp_amm.base_liquidity), 2 * FRACTIONAL_BITS))

\* a withdrawal that went through after a provide: both caches were rewritten twice
C15_Witness ==
    /\ op = "withdraw"
    /\ result = "Ok"
    /\ cp_amm.is_launched
    /\ cp_amm.lp_tokens_supply = 899999
    /\ cp_amm.base_liquidity # cp_amm.quote_liquidity

\* floor(lp_tokens_supply * (sqrt(new_product) - sqrt(old_product)) / sqrt(old_product)), in exact arithmetic:
\* floor(sqrt(lp_tokens_supply^2 * new_product / old_product)) - lp_tokens_supply
ExactLpMint(lp_tokens_supply, old_product, new_product) ==
    ToInt(integer_sqrt(Div(Mul(Mul(FromInt(lp_tokens_supply), FromInt(lp_tokens_supply)), new_product), old_product)))
        - lp_tokens_supply

\* C16: a successful provide raises the supply by
\* floor(supply * (newSqrtCP - oldSqrtCP) / oldSqrtCP), where oldSqrtCP is the
\* root of the product of the reserves before and newSqrtCP the root of the
\* product of the reserves after the deposit.
C16_ProvideMintsShare ==
    [][(op' = "provide" /\ result' = "Ok")
           => cp_amm'.lp_tokens_supply =
                  cp_amm.lp_tokens_supply
                      + ExactLpMint(cp_amm.lp_tokens_supply,
                                    Mul(FromInt(cp_amm.base_liquidity), FromInt(cp_amm.quote_liquidity)),
                                    Mul(FromInt(cp_amm.base_liquidity + args'[1]),
                                        FromInt(cp_amm.quote_liquidity + args'[2])))]_vars

\* floor(liquidity * lp_tokens / lp_tokens_supply), in exact arithmetic
ExactShare(liquidity, lp_tokens, lp_tokens_supply) ==
    ToInt(Div(Mul(FromInt(liquidity), FromInt(lp_tokens)), FromInt(lp_tokens_supply)))

\* C17: a successful withdraw of lp_tokens lowers the base reserve by
\* floor(base_liquidity * lp_tokens / lp_tokens_supply), the quote reserve by
\* floor(quote_liquidity * lp_tokens / lp_tokens_supply) and the supply by
\* lp_tokens.
C17_WithdrawPaysShare ==
    [][(op' = "withdraw" /\ result' = "Ok")
           => /\ cp_amm'.base_liquidity =
                     cp_amm.base_liquidity
                         - ExactShare(cp_amm.base_liquidity, args'[1], cp_amm.lp_tokens_supply)
              /\ cp_amm'.quote_liquidity =
                     cp_amm.quote_liquidity
                         - ExactShare(cp_amm.quote_liquidity, args'[1], cp_amm.lp_tokens_supply)
              /\ cp_amm'.lp_tokens_supply = cp_amm.lp_tokens_supply - args'[1]]_vars

\* results with which provide_to_cp_amm ends before get_provide_payload is called
ProvideRejections == {"AccountNotInitialized", "ConstraintRaw", "InvalidAccounts"}

\* sqrt(new_base / new_quote) is more than a 10^-8 part away from ratio_sqrt,
\* a Q64.128 value: new_base / new_quote lies outside
\* ratio_sqrt^2 * (1 - 10^-8)^2 .. ratio_sqrt^2 * (1 + 10^-8)^2, cross-multiplied
RatioOutOfTolerance(ratio_sqrt, new_base, new_quote) ==
    \E scaled \in {Mul(Shl(FromInt(new_base), 2 * FRACTIONAL_BITS),
                        Mul(FromInt(100000000), FromInt(100000000)))},
       square \in {Mul(Mul(ratio_sqrt, ratio_sqrt), FromInt(new_quote))} :
        \/ Cmp(scaled, Mul(square, Mul(FromInt(100000001), FromInt(100000001)))) > 0
        \/ Cmp(scaled, Mul(square, Mul(FromInt(99999999), FromInt(99999999)))) < 0

\* C18: a provide of two positive amounts, once its calculation is reached,
\* fails with LiquidityRatioToleranceExceeded and leaves the record alone
\* when the root of the ratio of the new reserves is more than the tolerance
\* away from the stored base_quote_ratio_sqrt, and does not fail with that
\* error otherwise.
C18_LopsidedProvideRefused ==
    [][(op' = "provide" /\ result' \notin ProvideRejections /\ args'[1] > 0 /\ args'[2] > 0)
           => IF RatioOutOfTolerance(cp_amm.base_quote_ratio_sqrt,
                                     cp_amm.base_liquidity + args'[1], cp_amm.quote_liquidity + args'[2])
              THEN result' = "LiquidityRatioToleranceExceeded" /\ cp_amm' = cp_amm
              ELSE result' # "LiquidityRatioToleranceExceeded"]_vars

\* a deposit of 90000 and 1 refused, on a pool whose ratio a swap has moved
C18_Witness ==
    /\ op = "provide"
    /\ args = <<90000, 1>>
    /\ result = "LiquidityRatioToleranceExceeded"
    /\ cp_amm.base_liquidity > cp_amm.quote_liquidity
    /\ cp_amm.protocol_base_fees_to_redeem > 0

(***************************************************************************)
(* The claims about the collection of the protocol fees.                   *)
(***************************************************************************)
\* results with which collect_fees_from_cp_amm ends before get_collect_fees_payload is called
CollectRejections == {"AccountNotInitialized", "ConstraintRaw"}

\* C19: collect_fees, once its calculation is reached, fails with
\* ProvidersFeesIsZero when both accumulators are zero.  Otherwise the
\* payload names the two accumulators as the amounts to transfer, one
\* transfer is made for each that is not zero, and when they went through
\* both accumulators are zero and nothing else in the record has changed.
C19_CollectPaysAccumulators ==
    [][(op' = "collect_fees" /\ result' \notin CollectRejections)
           => IF cp_amm.protocol_base_fees_to_redeem = 0 /\ cp_amm.protocol_quote_fees_to_redeem = 0
              THEN result' = "ProvidersFeesIsZero" /\ cp_amm' = cp_amm
              ELSE \E payload \in {get_collect_fees_payload(cp_amm)} :
                       /\ payload.ok
                       /\ payload.v.protocol_base_fees_to_redeem = cp_amm.protocol_base_fees_to_redeem
                       /\ payload.v.protocol_quote_fees_to_redeem = cp_amm.protocol_quote_fees_to_redeem
                       /\ cpi_total' = Cardinality({side \in {"base", "quote"} :
                                                       IF side = "base"
                                                       THEN cp_amm.protocol_base_fees_to_redeem > 0
                                                       ELSE cp_amm.protocol_quote_fees_to_redeem > 0})
                       /\ result' \in {"Ok", "ExternalFailure"}
                       /\ result' = "Ok"
                              => cp_amm' = [cp_amm EXCEPT !.protocol_base_fees_to_redeem = 0,
                                                         !.protocol_quote_fees_to_redeem = 0]]_vars

\* the fees of swaps in both directions collected in one instruction
C19_Witness ==
    /\ op = "collect_fees"
    /\ result = "Ok"
    /\ cpi_total = 2
    /\ cp_amm.protocol_base_fees_to_redeem = 0
    /\ cp_amm.protocol_quote_fees_to_redeem = 0

\* C20: a collect_fees right after a successful collect_fees fails with
\* ProvidersFeesIsZero and leaves the record alone.
C20_SecondCollectFails ==
    [][(op = "collect_fees" /\ result = "Ok" /\ op' = "collect_fees")
           => (result' = "ProvidersFeesIsZero" /\ cp_amm' = cp_amm)]_vars

\* the second of two collections in a row, on a pool a swap has paid fees into
C20_Witness ==
    /\ op = "collect_fees"
    /\ result = "ProvidersFeesIsZero"
    /\ cp_amm.is_launched
    /\ cp_amm.base_liquidity > 250000000
    /\ steps = MaxSteps

(***************************************************************************)
(* The claims about re-initialization, panics, the locked seed, the        *)
(* square roots, the vaults and the LP mint.                               *)
(***************************************************************************)
\* C21: initialize on a record that is initialized fails with
\* CpAmmAlreadyInitialized, and no initialize, through the instruction or on
\* the record itself, changes a record that is initialized: the launched
\* flag, the reserves and every other field stay as they are.
C21_InitializeOnlyOnce ==
    [][(op' \in {"initialize", "CpAmm::initialize"} /\ cp_amm.is_initialized)
           => /\ cp_amm' = cp_amm
              /\ result' # "Ok"
              /\ op' = "CpAmm::initialize" => result' = "CpAmmAlreadyInitialized"]_vars

\* CpAmm::initialize was refused on a launched pool with reserves
C21_Witness ==
    /\ op = "CpAmm::initialize"
    /\ result = "CpAmmAlreadyInitialized"
    /\ cp_amm.is_launched
    /\ cp_amm.base_liquidity > 0

\* the instructions that run a payload calculation and the calls of one
PayloadCalls ==
    {"launch", "provide", "withdraw", "swap", "collect_fees", "get_provide_payload",
     "get_withdraw_payload", "get_swap_payload", "get_collect_fees_payload",
     "CpAmm::get_swap_payload"}

\* C22: whatever the record, the amounts and the two 16-bit rates, a payload
\* calculation ends with a payload or with an error of ErrorCode; none of
\* them panics.
C22_PayloadsNeverPanic ==
    op \in PayloadCalls => result # "Panic"

\* C23: once launch has been applied, lp_tokens_supply is never below
\* initial_locked_liquidity, whatever is provided, withdrawn, swapped and
\* collected afterwards: the LP tokens of the locked vault are never burned.
C23_LockedSeedStays ==
    launch_applied
        => /\ cp_amm.lp_tokens_supply >= cp_amm.initial_locked_liquidity
           /\ cp_amm_locked_lp_vault >= cp_amm.initial_locked_liquidity

\* a withdraw the record admits, of more LP tokens than there are outside the
\* locked vault, has ended with its burn
C23_Witness ==
    /\ op = "withdraw"
    /\ args[1] < cp_amm.lp_tokens_supply
    /\ args[1] > cp_amm.lp_tokens_supply - cp_amm.initial_locked_liquidity
    /\ cpi_total = 3
    /\ cpi_done = 0
    /\ result = "ExternalFailure"

\* C24: U256::sqrt ends for every value below 2^256 and returns the floor of
\* its square root: the largest r with r * r <= value, which is what
\* integer_sqrt returns.
C24_SqrtIsFloor ==
    op = "U256::sqrt"
        => /\ Cmp(Mul(result, result), args[1]) <= 0
           /\ Cmp(Mul(Add(result, <<1>>), Add(result, <<1>>)), args[1]) > 0
           /\ result = integer_sqrt(args[1])

\* C25: for every non-zero value below 2^64, the checked u64 square of
\* sqrt_from_u128(value) is a value that differs from it by at most
\* 2 >> (leading_zeros(value) - 3), which is 0 for these values; for every
\* value of 2^64 or more the checked u64 square is None.
C25_SqrtSquareRoundTrip ==
    (op = "sqrt_from_u128, checked_square_as_u64" /\ args[1] # <<>>)
        => IF Shr(args[1], 64) # <<>> THEN result = None
           ELSE /\ result.some
                /\ BitLen(result.v) <= 64
                /\ \E leading_zeros \in {128 - BitLen(args[1])} :
                       \E tolerance \in {Shr(<<2>>, (IF leading_zeros > 3 THEN leading_zeros ELSE 3) - 3)} :
                           /\ tolerance = <<>>
                           /\ Cmp(abs_diff(result.v, args[1]), tolerance) <= 0

\* the round trip has given back a value that is not a perfect square, whose
\* square root is not exact
C25_Witness ==
    /\ op = "sqrt_from_u128, checked_square_as_u64"
    /\ args[1] = FromInt(1000000007)
    /\ Cmp(Mul(args[2], args[2]), Shl(args[1], 2 * FRACTIONAL_BITS)) < 0
    /\ result = Some(args[1])

\* C30: the checked conversion of a square to u64 returns the square rounded
\* to the nearest integer whenever that fits in a u64, squares below 1
\* included, and returns None only when the rounded square is above u64::MAX.
\* The square has 256 fractional bits under Q64_128 and 128 under U256.
C30_SquareRoundsToNearest ==
    op \in {"Q64_128::checked_square_as_u64", "U256::checked_q128_128_to_u64_round"}
        => \E bits \in {IF op = "U256::checked_q128_128_to_u64_round" THEN 128 ELSE 256} :
               \E square \in {IF bits = 128 THEN args[1] ELSE Mul(args[1], args[1])} :
                   IF result.some
                   THEN Cmp(Shl(abs_diff(Shl(result.v, bits), square), 1), Shl(<<1>>, bits)) <= 0
                   ELSE Cmp(square, Add(Shl(U64_MAX, bits), Shl(<<1>>, bits - 1))) >= 0

\* C26: after any sequence of launch, provide, withdraw, swap and
\* collect_fees through the handlers, each vault holds its side's reserve
\* plus its side's protocol fees to redeem, so that what the record lets be
\* withdrawn and collected can be paid out of the vault.
C26_VaultsHoldReservesAndFees ==
    /\ cp_amm_base_vault = cp_amm.base_liquidity + cp_amm.protocol_base_fees_to_redeem
    /\ cp_amm_quote_vault = cp_amm.quote_liquidity + cp_amm.protocol_quote_fees_to_redeem

\* C27: a swap that succeeds never decreases the product of the stored
\* reserves: base_liquidity * quote_liquidity after the apply is at least
\* what it was before.
C27_SwapKeepsProduct ==
    [][(op' = "swap" /\ result' = "Ok")
           => Cmp(Mul(FromInt(cp_amm'.base_liquidity), FromInt(cp_amm'.quote_liquidity)),
                  Mul(FromInt(cp_amm.base_liquidity), FromInt(cp_amm.quote_liquidity))) >= 0]_vars

\* C27, as the code has it: a swap that succeeds may decrease the product of
\* the stored reserves, since the opposite reserve is rounded down, but the
\* square root of the product after the apply is not below the one before
\* by more than SWAP_CONSTANT_PRODUCT_TOLERANCE times the one before.
C27_SwapKeepsProductWithinTolerance ==
    [][(op' = "swap" /\ result' = "Ok")
           => Cmp(Add(cp_amm'.constant_product_sqrt,
                      mul(cp_amm.constant_product_sqrt, SWAP_CONSTANT_PRODUCT_TOLERANCE).v),
                  cp_amm.constant_product_sqrt) >= 0]_vars

\* a swap has succeeded and has left a smaller product of the reserves than
\* the pool was started with
C27_Witness ==
    /\ op = "swap"
    /\ result = "Ok"
    /\ args = <<100, 1, 1000000, TRUE>>
    /\ steps = MaxSteps - PoolSteps + 1
    /\ cp_amm.base_liquidity = 900100
    /\ cp_amm.quote_liquidity = 899900
    /\ cp_amm_quote_vault = 899900

C29_SupplyIsMintedLessBurned ==
    /\ cp_amm.lp_tokens_supply = lp_mint
    /\ launch_applied => cp_amm_locked_lp_vault = cp_amm.initial_locked_liquidity

====
